---- MODULE Spec2Model ----
(***************************************************************************)
(* TradeTracker backend (backend/main_firebase.py): the trade ledger, the  *)
(* user profile, the monthly returns and the fees configuration, as a      *)
(* state machine with one action per HTTP handler.                         *)
(*                                                                         *)
(* Representation                                                          *)
(*  - An Optional value is None (<<>>) or Some(v) (<<v>>).  A missing      *)
(*    dictionary key and a key holding None are both None: the handlers    *)
(*    read stored documents with dict.get, which does not tell them apart. *)
(*  - Prices and balances are integers.  Shares are integers counted in    *)
(*    ticks, a fraction of a share.  The handlers compare shares and P&L   *)
(*    with two constants: the tolerance 1e-10 of exit_trade, which is EPS  *)
(*    ticks, and the 1 that get_metrics divides by when no trade lost,     *)
(*    which is Dollar units of P&L (a price times ticks).  Both are above  *)
(*    one unit, so that a remainder below the tolerance and a loss below   *)
(*    one dollar are expressible.                                          *)
(*  - risk and risk_dollars are exact rationals <<n, d>> in lowest terms   *)
(*    with d > 0 (the code's floats, without rounding error).              *)
(*  - A calendar date "YYYY-MM-DD" is the number of its day: zero-padded   *)
(*    ISO strings order lexically as their days do.  Timestamps            *)
(*    (datetime.now()) are the current day.                                *)
(*  - The trades collection is a sequence of documents.  With Firestore    *)
(*    (db = TRUE) the order carries no meaning and ids come from a counter *)
(*    per collection that never repeats; without it (db = FALSE) the       *)
(*    sequence is the MOCK_TRADES list and ids are                         *)
(*    str(len(MOCK_TRADES) + 1).                                           *)
(*  - Every caller is authenticated: caller is the uid get_current_user    *)
(*    returns.  pending is the add_trade request a client has prepared and *)
(*    submits, once or again (<<>> when there is none); last is the        *)
(*    response to the latest request.                                      *)
(*  - exit_trade reads the open trade and then writes once or twice, with  *)
(*    no transaction.  ExitTrade is the handler run from request to        *)
(*    response with nothing in between; where requests overlap, or the     *)
(*    process stops between two writes, the handler is the steps           *)
(*    ExitRead, ExitWrite and ExitStop, and inflight holds the requests    *)
(*    that have read and not yet answered.                                 *)
(*  - The campaign scripts (backend/email_scripts) are command line        *)
(*    programs over the same Firestore project: markers is what they have  *)
(*    written to the users collection, outbox the emails they have handed  *)
(*    to the email service.                                                *)
(***************************************************************************)
EXTENDS Integers, Sequences, FiniteSets, TLC

VARIABLES db, today, trades, nextId, profiles, monthly_returns, fees_configs, pending, last,
          inflight, markers, outbox

vars == <<db, today, trades, nextId, profiles, monthly_returns, fees_configs, pending, last,
          inflight, markers, outbox>>

\* what no handler that runs from its request to its response touches: the
\* exit requests whose writes are under way, the users collection of the
\* campaign scripts and the emails handed to the email service
apart == <<inflight, markers, outbox>>

stores == <<trades, profiles, monthly_returns, fees_configs>>

----------------------------------------------------------------------------
(* Bounds of the model *)

MaxTrades == 3

MaxDay == 2

MaxReturns == 2

\* the document ids a collection hands out in a behaviour
MaxIds == MaxTrades + 1

----------------------------------------------------------------------------
(* Optional values and Python truthiness *)

None == <<>>

Some(v) == <<v>>

Val(x) == x[1]

\* bool(x) of an Optional[float] held as an integer: None and 0 are falsy
Truthy(x) == x # None /\ Val(x) # 0

\* bool(x) of an Optional[float] held as a rational
TruthyRat(x) == x # None /\ Val(x)[1] # 0

\* dict.get(key, default) on a stored Optional
GetOr(x, default) == IF x = None THEN default ELSE Val(x)

----------------------------------------------------------------------------
(* Exact rationals *)

Abs(n) == IF n < 0 THEN -n ELSE n

RECURSIVE GCD(_, _)
GCD(a, b) == IF b = 0 THEN a ELSE GCD(b, a % b)

Norm(n, d) ==
    LET g == GCD(Abs(n), Abs(d))
        s == IF d < 0 THEN -1 ELSE 1
    IN <<(s * n) \div g, (s * d) \div g>>

R(n) == <<n, 1>>

RMul(a, b) == Norm(a[1] * b[1], a[2] * b[2])

RDiv(a, b) == Norm(a[1] * b[2], a[2] * b[1])

RAdd(a, b) == Norm(a[1] * b[2] + b[1] * a[2], a[2] * b[2])

RSub(a, b) == Norm(a[1] * b[2] - b[1] * a[2], a[2] * b[2])

RLt(a, b) == a[1] * b[2] < b[1] * a[2]

----------------------------------------------------------------------------
(* Program constants *)

\* the default account balance, 10000.0
DEFAULT_BALANCE == 10000

\* abs(remaining_shares) < 1e-10, in ticks
EPS == 2

\* the default risk_tolerance, 2.0
DEFAULT_RISK_TOLERANCE == 2

Users == {"user123", "u2"}

\* str.upper() on the tickers of the model
Upper(t) == IF t = "aapl" THEN "AAPL" ELSE IF t = "msft" THEN "MSFT" ELSE t

\* Notes are sequences of parts <<label, text>>, " | " standing between
\* parts: the stored string "n | Exit: x" is << <<"", "n">>, <<"Exit", "x">> >>
\* and "" is << >>.
Notes(text) == IF text = "" THEN <<>> ELSE << <<"", text>> >>

\* f"{notes} | {label}: {text}".strip(' |'): the strip removes the separator
\* that an empty notes leaves in front
Appended(notes, label, text) == notes \o << <<label, text>> >>

----------------------------------------------------------------------------
(* The trades collection *)

Idx(store) == 1..Len(store)

Ids(store) == {store[i].id : i \in Idx(store)}

HasId(store, id) == id \in Ids(store)

IndexOf(store, id) == CHOOSE i \in Idx(store) : store[i].id = id

ById(store, id) == store[IndexOf(store, id)]

Min(S) == CHOOSE x \in S : \A y \in S : x <= y

Remove(store, i) == [j \in 1..(Len(store) - 1) |-> IF j < i THEN store[j] ELSE store[j + 1]]

\* MOCK_TRADES as the module defines it (its date is day 1, its 100 shares
\* are kept as the number 100)
MOCK_TRADES ==
    << [id |-> 1, user_id |-> "user123", date |-> 1, exit_date |-> None,
        ticker |-> "AAPL", buy_price |-> Some(150), sell_price |-> Some(165),
        shares |-> 100, risk |-> Some(R(2)), risk_dollars |-> None,
        account_balance |-> None, notes |-> Notes("n"), status |-> "closed",
        created_at |-> 0, updated_at |-> 0] >>

\* the id the next stored trade gets: Firestore's fresh document id, or
\* str(len(MOCK_TRADES) + 1)
NewId == IF db THEN nextId.trades ELSE Len(trades) + 1

----------------------------------------------------------------------------
(* Responses.  last is the response to the latest request, with the        *)
(* request it answers.                                                     *)

NoData == <<>>

Response(op, caller, user, req, code, target, created, data) ==
    [op |-> op, caller |-> caller, user |-> user, req |-> req, code |-> code,
     target |-> target, created |-> created, data |-> data]

Failures == {400, 403, 404, 422}

----------------------------------------------------------------------------
(* POST /add-trade *)

\* lines 227-240: the status and risk validation; 200 when the payload passes
AddTradeValidation(t) ==
    IF t.status = "open" /\ ~Truthy(t.buy_price) THEN 422
    ELSE IF t.status = "closed" /\ ~Truthy(t.sell_price) THEN 422
    ELSE IF ~TruthyRat(t.risk) /\ ~TruthyRat(t.risk_dollars) THEN 422
    ELSE 200

\* the balance of the profile before the balance of the payload
ResolveAccountBalance_ProfileFirst(caller, given) ==
    IF db /\ profiles[caller] # None
    THEN GetOr(Val(profiles[caller]).account_balance, DEFAULT_BALANCE)
    ELSE IF Truthy(given) THEN Val(given) ELSE DEFAULT_BALANCE

\* lines 245-260: the balance the risk calculation uses
ResolveAccountBalance(caller, given) ==
    IF Truthy(given) THEN Val(given)
    ELSE IF db
         THEN IF profiles[caller] # None
              THEN GetOr(Val(profiles[caller]).account_balance, DEFAULT_BALANCE)
              ELSE DEFAULT_BALANCE
         ELSE DEFAULT_BALANCE

\* the derivation with the percentage taken as a fraction
DeriveRisk_Unscaled(risk, risk_dollars, account_balance) ==
    IF TruthyRat(risk) /\ ~TruthyRat(risk_dollars)
    THEN [risk |-> risk, risk_dollars |-> Some(RMul(Val(risk), R(account_balance)))]
    ELSE IF TruthyRat(risk_dollars) /\ ~TruthyRat(risk)
    THEN [risk |-> Some(RDiv(Val(risk_dollars), R(account_balance))),
          risk_dollars |-> risk_dollars]
    ELSE [risk |-> risk, risk_dollars |-> risk_dollars]

\* lines 264-269: the missing risk field, from the balance
DeriveRisk(risk, risk_dollars, account_balance) ==
    IF TruthyRat(risk) /\ ~TruthyRat(risk_dollars)
    THEN [risk |-> risk,
          risk_dollars |-> Some(RMul(RDiv(Val(risk), R(100)), R(account_balance)))]
    ELSE IF TruthyRat(risk_dollars) /\ ~TruthyRat(risk)
    THEN [risk |-> Some(RMul(RDiv(Val(risk_dollars), R(account_balance)), R(100))),
          risk_dollars |-> risk_dollars]
    ELSE [risk |-> risk, risk_dollars |-> risk_dollars]

\* the owner taken from the payload
AddTradeOwner_FromPayload(caller, t) == t.user_id

\* line 275: the owner of the stored trade
AddTradeOwner(caller, t) == caller

\* lines 262-279, 286-289: the document add_trade stores
AddTradeDocument(caller, t) ==
    LET account_balance == ResolveAccountBalance(caller, t.account_balance)
        usable == account_balance # 0 /\ account_balance > 0
        r == IF usable THEN DeriveRisk(t.risk, t.risk_dollars, account_balance)
             ELSE [risk |-> t.risk, risk_dollars |-> t.risk_dollars]
    IN [id |-> NewId, user_id |-> AddTradeOwner(caller, t), date |-> t.date,
        exit_date |-> None, ticker |-> t.ticker, buy_price |-> t.buy_price,
        sell_price |-> t.sell_price, shares |-> t.shares, risk |-> r.risk,
        risk_dollars |-> r.risk_dollars,
        account_balance |-> IF usable THEN Some(account_balance) ELSE t.account_balance,
        notes |-> Notes(t.notes), status |-> t.status,
        created_at |-> today, updated_at |-> today]

\* the trade written whatever the validation said
TradesAfterAdd_WrittenFirst(caller, t, code) == Append(trades, AddTradeDocument(caller, t))

\* lines 227-240, then 292 and 299: the collection once add_trade has
\* answered with code; the write comes after the checks
TradesAfterAdd(caller, t, code) ==
    IF code = 200 THEN Append(trades, AddTradeDocument(caller, t)) ELSE trades

AddTrade(caller, t) ==
    LET code == AddTradeValidation(t)
    IN /\ code = 200 => (Len(trades) < MaxTrades /\ nextId.trades <= MaxIds)
       /\ trades' = TradesAfterAdd(caller, t, code)
       /\ nextId' = IF db /\ code = 200 THEN [nextId EXCEPT !.trades = @ + 1] ELSE nextId
       /\ last' = Response("add_trade", caller, caller, t, code, 0,
                           IF code = 200 THEN NewId ELSE 0, NoData)
       /\ UNCHANGED <<apart, pending, db, today, profiles, monthly_returns, fees_configs>>

----------------------------------------------------------------------------
(* POST /exit-trade/{user_id} *)

\* lines 332-333 and 416: the open trades of the user for the ticker
OpenTrades(user_id, ticker) ==
    {i \in Idx(trades) : /\ trades[i].user_id = user_id
                         /\ trades[i].ticker = ticker
                         /\ trades[i].status = "open"}

\* lines 349 and 421: the trade the exit operates on.  docs[0] of a Firestore
\* query is whichever document the store lists first; open_trades[0] is the
\* first of the list
Located(user_id, ticker) ==
    IF db THEN OpenTrades(user_id, ticker) ELSE {Min(OpenTrades(user_id, ticker))}

\* lines 359-363: the remaining shares, a remainder below the tolerance
\* counting as zero; line 456 without Firestore
RemainingShares(current_shares, shares_to_exit) ==
    IF db /\ Abs(current_shares - shares_to_exit) < EPS THEN 0
    ELSE current_shares - shares_to_exit

\* lines 365 and 427
IsFullExit(current_shares, shares_to_exit) ==
    IF db THEN RemainingShares(current_shares, shares_to_exit) = 0
    ELSE shares_to_exit = current_shares

\* the full exit without the status change
FullExitDocument_StaysOpen(doc, r) ==
    [doc EXCEPT !.sell_price = Some(r.sell_price),
                !.exit_date = Some(today),
                !.updated_at = today,
                !.shares = IF db THEN r.shares_to_exit ELSE @]

\* lines 367-377 and 429-434: the trade, closed in place
FullExitDocument(doc, r) ==
    [doc EXCEPT !.sell_price = Some(r.sell_price),
                !.status = "closed",
                !.exit_date = Some(today),
                !.updated_at = today,
                !.shares = IF db THEN r.shares_to_exit ELSE @,
                !.notes = IF r.notes # "" THEN Appended(@, "Exit", r.notes) ELSE @]

\* lines 383-397 and 437-452: the closed record of the exited portion
ExitLegDocument(doc, user_id, r) ==
    [id |-> NewId, user_id |-> user_id, date |-> doc.date,
     exit_date |-> Some(today), ticker |-> r.ticker, buy_price |-> doc.buy_price,
     sell_price |-> Some(r.sell_price), shares |-> r.shares_to_exit,
     risk |-> doc.risk, risk_dollars |-> doc.risk_dollars,
     account_balance |-> None,
     notes |-> Appended(doc.notes, "Partial exit", r.notes),
     status |-> "closed", created_at |-> doc.created_at, updated_at |-> today]

\* the partial exit that forgets to take the exited shares off the original
RemainderDocument_NotDecremented(doc, r) == [doc EXCEPT !.updated_at = today]

\* lines 402-405 and 456-457: the original trade after a partial exit
RemainderDocument(doc, r) ==
    [doc EXCEPT !.shares = RemainingShares(doc.shares, r.shares_to_exit),
                !.updated_at = today]

\* the check with >= for >: an exit of all the shares is refused
ExceedsShares_OffByOne(shares_to_exit, current_shares) == shares_to_exit >= current_shares

\* lines 355 and 424
ExceedsShares(shares_to_exit, current_shares) == shares_to_exit > current_shares

ExitTrade(caller, user_id, r) ==
    LET Fail(code) ==
            /\ last' = Response("exit_trade", caller, user_id, r, code, 0, 0, NoData)
            /\ UNCHANGED <<apart, pending, db, today, trades, nextId, profiles, monthly_returns, fees_configs>>
    IN IF user_id # caller THEN Fail(403)
       ELSE IF OpenTrades(user_id, r.ticker) = {} THEN Fail(404)
       ELSE \E i \in Located(user_id, r.ticker) :
              LET doc == trades[i]
              IN IF ExceedsShares(r.shares_to_exit, doc.shares) THEN Fail(400)
                 ELSE IF IsFullExit(doc.shares, r.shares_to_exit)
                 THEN /\ trades' = [trades EXCEPT ![i] = FullExitDocument(doc, r)]
                      /\ last' = Response("exit_trade", caller, user_id, r, 200, doc.id, 0, NoData)
                      /\ UNCHANGED <<apart, pending, db, today, nextId, profiles, monthly_returns, fees_configs>>
                 ELSE /\ Len(trades) < MaxTrades
                      /\ nextId.trades <= MaxIds
                      /\ trades' = Append([trades EXCEPT ![i] = RemainderDocument(doc, r)],
                                          ExitLegDocument(doc, user_id, r))
                      /\ nextId' = IF db THEN [nextId EXCEPT !.trades = @ + 1] ELSE nextId
                      /\ last' = Response("exit_trade", caller, user_id, r, 200, doc.id, NewId, NoData)
                      /\ UNCHANGED <<apart, pending, db, today, profiles, monthly_returns, fees_configs>>

----------------------------------------------------------------------------
(* POST /exit-trade/{user_id} with Firestore, write by write.  The handler *)
(* has no await, so one server process runs it from request to response;   *)
(* requests overlap when several server processes share the Firestore      *)
(* project.  A worker is such a process.                                   *)

MaxWorkers == 2

Workers == 1..MaxWorkers

\* the request a worker has read the trade for, if any
InFlight(worker) == {f \in inflight : f.worker = worker}

\* lines 331-356: the worker has located the open trade and found the
\* shares sufficient; trade_data is the document as read, leg the id of the
\* closed leg once written.  (A request that fails writes nothing: it is
\* ExitTrade.)
ExitRead(worker, user_id, r) ==
    /\ db
    /\ InFlight(worker) = {}
    /\ \E i \in Located(user_id, r.ticker) :
            /\ ~ExceedsShares(r.shares_to_exit, trades[i].shares)
            /\ inflight' = inflight \cup {[worker |-> worker, user_id |-> user_id, r |-> r,
                                           trade_data |-> trades[i], leg |-> 0]}
    /\ UNCHANGED <<last, markers, outbox, pending, db, today, trades, nextId, profiles,
                   monthly_returns, fees_configs>>

\* the remaining shares computed again from the stored document
RemainderWritten_Reread(stored, f) ==
    [stored EXCEPT !.shares = RemainingShares(stored.shares, f.r.shares_to_exit),
                   !.updated_at = today]

\* lines 402-405: update() sets the shares that remained of the shares read
RemainderWritten(stored, f) ==
    [stored EXCEPT !.shares = RemainingShares(f.trade_data.shares, f.r.shares_to_exit),
                   !.updated_at = today]

\* lines 367-377: update() sets the fields of the full exit, the notes from
\* the notes read
FullExitWritten(stored, f) ==
    [FullExitDocument(stored, f.r) EXCEPT !.notes = FullExitDocument(f.trade_data, f.r).notes]

\* lines 399-405: the two writes of a partial exit, in their order: add()
\* of the closed leg, then update() of the original
PartialWrites(f) ==
    IF f.leg = 0
    THEN [trades |-> Append(trades, ExitLegDocument(f.trade_data, f.user_id, f.r)),
          leg |-> NewId, adds |-> TRUE, done |-> FALSE]
    ELSE [trades |-> [i \in DOMAIN trades |-> IF trades[i].id = f.trade_data.id
                                               THEN RemainderWritten(trades[i], f) ELSE trades[i]],
          leg |-> f.leg, adds |-> FALSE, done |-> TRUE]

\* lines 358-411: the next write of the worker's request, and the response
\* after the last one; update() of a document that is gone raises, which
\* the handler answers with 500
ExitWrite(worker) ==
    \E f \in InFlight(worker) :
        LET Answer(code, created) ==
                Response("exit_trade", f.user_id, f.user_id, f.r, code, f.trade_data.id, created, NoData)
            w == PartialWrites(f)
        IN IF IsFullExit(f.trade_data.shares, f.r.shares_to_exit)
           THEN /\ trades' = IF HasId(trades, f.trade_data.id)
                             THEN [trades EXCEPT ![IndexOf(trades, f.trade_data.id)] = FullExitWritten(@, f)]
                             ELSE trades
                /\ last' = Answer(IF HasId(trades, f.trade_data.id) THEN 200 ELSE 500, 0)
                /\ inflight' = inflight \ {f}
                /\ UNCHANGED <<markers, outbox, pending, db, today, nextId, profiles,
                               monthly_returns, fees_configs>>
           ELSE /\ w.adds => (Len(trades) < MaxTrades /\ nextId.trades <= MaxIds)
                /\ trades' = w.trades
                /\ nextId' = IF w.adds THEN [nextId EXCEPT !.trades = @ + 1] ELSE nextId
                /\ inflight' = (inflight \ {f}) \cup (IF w.done THEN {} ELSE {[f EXCEPT !.leg = w.leg]})
                /\ last' = IF ~w.done THEN last
                           ELSE Answer(IF HasId(trades, f.trade_data.id) THEN 200 ELSE 500, w.leg)
                /\ UNCHANGED <<markers, outbox, pending, db, today, profiles, monthly_returns, fees_configs>>

\* the worker's process stops where it is: the request gets no response and
\* writes no more
ExitStop(worker) ==
    \E f \in InFlight(worker) :
        /\ inflight' = inflight \ {f}
        /\ UNCHANGED <<last, markers, outbox, pending, db, today, trades, nextId, profiles,
                       monthly_returns, fees_configs>>

----------------------------------------------------------------------------
(* PUT /trades/{trade_id} *)

\* x if x is not None else y
Supplied(x, y) == IF x # None THEN x ELSE y

\* lines 516-533: the validation of the record the update would leave
UpdateTradeValidation(doc, u) ==
    LET final_status == IF u.status # None /\ Val(u.status) # "" THEN Val(u.status)
                        ELSE doc.status
        final_buy_price == Supplied(u.buy_price, doc.buy_price)
        final_sell_price == Supplied(u.sell_price, doc.sell_price)
        final_risk == Supplied(u.risk, doc.risk)
        final_risk_dollars == Supplied(u.risk_dollars, doc.risk_dollars)
    IN IF final_status = "open" /\ ~Truthy(final_buy_price) THEN 422
       ELSE IF final_status = "closed" /\ ~Truthy(final_sell_price) THEN 422
       ELSE IF ~TruthyRat(final_risk) /\ ~TruthyRat(final_risk_dollars) THEN 422
       ELSE 200

\* the balance of the caller's profile, when the request carries none
UpdateTradeBalance_FromProfile(caller, doc, u) ==
    IF u.account_balance # None THEN u.account_balance
    ELSE IF profiles[caller] # None THEN Val(profiles[caller]).account_balance
    ELSE doc.account_balance

\* line 536: the balance update_trade derives a missing risk field from
UpdateTradeBalance(caller, doc, u) == Supplied(u.account_balance, doc.account_balance)

\* the sell price of the request written whether it is supplied or not
FieldsApplied_SellReplaced(doc, u) ==
    [doc EXCEPT !.sell_price = u.sell_price, !.updated_at = today]

\* lines 494-513 and 560-579: the supplied fields, written over the stored ones
FieldsApplied(doc, u) ==
    [doc EXCEPT !.date = IF u.date # None THEN Val(u.date) ELSE @,
                !.ticker = IF u.ticker # None THEN Upper(Val(u.ticker)) ELSE @,
                !.buy_price = Supplied(u.buy_price, @),
                !.sell_price = Supplied(u.sell_price, @),
                !.shares = IF u.shares # None THEN Val(u.shares) ELSE @,
                !.risk = Supplied(u.risk, @),
                !.risk_dollars = Supplied(u.risk_dollars, @),
                !.account_balance = Supplied(u.account_balance, @),
                !.notes = IF u.notes # None THEN Notes(Val(u.notes)) ELSE @,
                !.status = IF u.status # None THEN Val(u.status) ELSE @,
                !.updated_at = today]

\* lines 490-547: the document after the update, with Firestore
UpdatedDocument(caller, doc, u) ==
    LET final_risk == Supplied(u.risk, doc.risk)
        final_risk_dollars == Supplied(u.risk_dollars, doc.risk_dollars)
        account_balance == UpdateTradeBalance(caller, doc, u)
        r == IF Truthy(account_balance) /\ Val(account_balance) > 0
             THEN DeriveRisk(final_risk, final_risk_dollars, Val(account_balance))
             ELSE [risk |-> final_risk, risk_dollars |-> final_risk_dollars]
    IN [FieldsApplied(doc, u) EXCEPT !.risk = r.risk, !.risk_dollars = r.risk_dollars]

UpdateTrade(caller, trade_id, u) ==
    LET Fail(code) ==
            /\ last' = Response("update_trade", caller, caller, u, code, trade_id, 0, NoData)
            /\ UNCHANGED <<apart, pending, db, today, trades, nextId, profiles, monthly_returns, fees_configs>>
        Done(doc) ==
            /\ trades' = [trades EXCEPT ![IndexOf(trades, trade_id)] = doc]
            /\ last' = Response("update_trade", caller, caller, u, 200, trade_id, 0, NoData)
            /\ UNCHANGED <<apart, pending, db, today, nextId, profiles, monthly_returns, fees_configs>>
    IN IF db
       THEN IF ~HasId(trades, trade_id) THEN Fail(404)
            ELSE IF ById(trades, trade_id).user_id # caller THEN Fail(403)
            ELSE IF UpdateTradeValidation(ById(trades, trade_id), u) # 200 THEN Fail(422)
            ELSE Done(UpdatedDocument(caller, ById(trades, trade_id), u))
       ELSE IF ~(HasId(trades, trade_id) /\ ById(trades, trade_id).user_id = caller)
            THEN Fail(404)
            ELSE Done(FieldsApplied(ById(trades, trade_id), u))

----------------------------------------------------------------------------
(* DELETE /trades/{trade_id} *)

DeleteTrade(caller, trade_id) ==
    LET Answer(code) ==
            /\ last' = Response("delete_trade", caller, caller, trade_id, code, trade_id, 0, NoData)
            /\ UNCHANGED <<apart, pending, db, today, trades, nextId, profiles, monthly_returns, fees_configs>>
    IN IF db
       THEN IF ~HasId(trades, trade_id) THEN Answer(404)
            ELSE IF ById(trades, trade_id).user_id # caller THEN Answer(403)
            ELSE /\ trades' = Remove(trades, IndexOf(trades, trade_id))
                 /\ last' = Response("delete_trade", caller, caller, trade_id, 200, trade_id, 0, NoData)
                 /\ UNCHANGED <<apart, pending, db, today, nextId, profiles, monthly_returns, fees_configs>>
       ELSE Answer(200)

----------------------------------------------------------------------------
(* GET /trades/{user_id} *)

\* lines 683 and 753: the date a trade is filtered by
TradeDate(doc) ==
    IF doc.status = "closed" /\ doc.exit_date # None THEN Val(doc.exit_date) ELSE doc.date

\* lines 686-690 and 756-760
InRange(d, from_date, to_date) ==
    /\ ~(from_date # None /\ d < Val(from_date))
    /\ ~(to_date # None /\ d > Val(to_date))

\* the trades of every user
OfUser_All(store, user_id) == store

\* line 647 (the where() on user_id), line 699 without Firestore
OfUser(store, user_id) == SelectSeq(store, LAMBDA doc : doc.user_id = user_id)

\* lines 678-693
DateFiltered(docs, from_date, to_date) ==
    IF from_date # None \/ to_date # None
    THEN SelectSeq(docs, LAMBDA doc : InRange(TradeDate(doc), from_date, to_date))
    ELSE docs

\* lines 643-701: the trades the handler returns
TradesListed(user_id, from_date, to_date) ==
    IF db THEN DateFiltered(OfUser(trades, user_id), from_date, to_date)
    ELSE OfUser(trades, user_id)

\* lines 639-641 and 703-705: the 403 is raised inside the try whose
\* except Exception turns every exception into a 500
GetTrades(caller, user_id, from_date, to_date) ==
    /\ last' = IF user_id # caller
               THEN Response("get_trades", caller, user_id, <<from_date, to_date>>, 500, 0, 0, NoData)
               ELSE Response("get_trades", caller, user_id, <<from_date, to_date>>, 200, 0, 0,
                             TradesListed(user_id, from_date, to_date))
    /\ UNCHANGED <<apart, pending, db, today, trades, nextId, profiles, monthly_returns, fees_configs>>

----------------------------------------------------------------------------
(* GET /metrics/{user_id} *)

\* lines 788-810: the second filter, by the entry date alone
EntryDateFiltered(docs, from_date, to_date) ==
    IF from_date # None \/ to_date # None
    THEN SelectSeq(docs, LAMBDA doc : InRange(doc.date, from_date, to_date))
    ELSE docs

\* the "YYYY-MM" of a day, months of DaysPerMonth days
DaysPerMonth == 2

MonthOf(d) == (d - 1) \div DaysPerMonth

\* lines 814-836: with no trade left in the range, the trades entered in the
\* month of from_date (or of to_date)
MonthFallback(all_trades, docs, from_date, to_date) ==
    LET target_month == MonthOf(Val(IF from_date # None THEN from_date ELSE to_date))
        month_trades == SelectSeq(all_trades, LAMBDA doc : MonthOf(doc.date) = target_month)
    IN IF Len(docs) = 0 /\ (from_date # None \/ to_date # None) /\ Len(month_trades) > 0
       THEN month_trades
       ELSE docs

\* lines 737-836: the trades the metrics are computed over
MetricsTrades(user_id, from_date, to_date) ==
    LET all_trades == OfUser(trades, user_id)
        first == IF db THEN DateFiltered(all_trades, from_date, to_date) ELSE all_trades
    IN MonthFallback(all_trades, EntryDateFiltered(first, from_date, to_date),
                     from_date, to_date)

\* line 839
ClosedTrades(docs) ==
    SelectSeq(docs, LAMBDA doc : /\ doc.status = "closed"
                                 /\ Truthy(doc.sell_price)
                                 /\ Truthy(doc.buy_price))

\* line 851
PnL(doc) == (Val(doc.sell_price) - Val(doc.buy_price)) * doc.shares

RECURSIVE Sum(_)
Sum(xs) == IF xs = <<>> THEN 0 ELSE xs[1] + Sum(Tail(xs))

\* one dollar of P&L, in units of a price times a tick of shares
Dollar == 2

\* the profit factor with the gross loss raised to one dollar
ProfitFactor_Floored(gross_profit, losing_trades) ==
    LET gross_loss == Abs(Sum(losing_trades))
    IN Norm(gross_profit, IF gross_loss > Dollar THEN gross_loss ELSE Dollar)

\* lines 873-874
ProfitFactor(gross_profit, losing_trades) ==
    LET gross_loss == IF Len(losing_trades) > 0 THEN Abs(Sum(losing_trades)) ELSE Dollar
    IN IF gross_loss > 0 THEN Norm(gross_profit, gross_loss) ELSE R(0)

\* the expectancy with the losses added
TradeExpectancy_LossAdded(win_pct, avg_win, loss_pct, avg_loss) ==
    RAdd(RMul(win_pct, avg_win), RMul(loss_pct, avg_loss))

\* line 869
TradeExpectancy(win_pct, avg_win, loss_pct, avg_loss) ==
    RSub(RMul(win_pct, avg_win), RMul(loss_pct, avg_loss))

\* lines 842-901
Metrics(docs) ==
    LET closed_trades == ClosedTrades(docs)
        pnl_values == [i \in 1..Len(closed_trades) |-> PnL(closed_trades[i])]
        winning_trades == SelectSeq(pnl_values, LAMBDA x : x > 0)
        losing_trades == SelectSeq(pnl_values, LAMBDA x : x < 0)
        total_trades == Len(closed_trades)
        win_count == Len(winning_trades)
        loss_count == Len(losing_trades)
        win_percentage == RMul(Norm(win_count, total_trades), R(100))
        avg_win == IF win_count > 0 THEN Norm(Sum(winning_trades), win_count) ELSE R(0)
        avg_loss == IF loss_count > 0 THEN Norm(Abs(Sum(losing_trades)), loss_count) ELSE R(0)
        win_pct == RDiv(win_percentage, R(100))
        loss_pct == Norm(loss_count, total_trades)
        gross_profit == IF win_count > 0 THEN Sum(winning_trades) ELSE 0
    IN IF total_trades = 0
       THEN [net_pnl |-> 0, trade_expectancy |-> R(0), profit_factor |-> R(0),
             win_percentage |-> R(0), avg_win |-> R(0), avg_loss |-> R(0),
             total_trades |-> 0, winning_trades |-> 0, losing_trades |-> 0]
       ELSE [net_pnl |-> Sum(pnl_values),
             trade_expectancy |-> TradeExpectancy(win_pct, avg_win, loss_pct, avg_loss),
             profit_factor |-> ProfitFactor(gross_profit, losing_trades),
             win_percentage |-> win_percentage, avg_win |-> avg_win, avg_loss |-> avg_loss,
             total_trades |-> total_trades, winning_trades |-> win_count,
             losing_trades |-> loss_count]

\* lines 730-732 and 903-905: the 403 becomes a 500, as in get_trades
GetMetrics(caller, user_id, from_date, to_date) ==
    /\ last' = IF user_id # caller
               THEN Response("get_metrics", caller, user_id, <<from_date, to_date>>, 500, 0, 0, NoData)
               ELSE Response("get_metrics", caller, user_id, <<from_date, to_date>>, 200, 0, 0,
                             Metrics(MetricsTrades(user_id, from_date, to_date)))
    /\ UNCHANGED <<apart, pending, db, today, trades, nextId, profiles, monthly_returns, fees_configs>>

----------------------------------------------------------------------------
(* /profile/{user_id} *)

\* lines 934-951: the profile returned when none is stored
DefaultProfile ==
    [account_balance |-> Some(DEFAULT_BALANCE), currency |-> "USD",
     risk_tolerance |-> DEFAULT_RISK_TOLERANCE]

\* lines 917-951
ProfileShown(user_id) ==
    IF db /\ profiles[user_id] # None
    THEN [account_balance |-> Val(profiles[user_id]).account_balance,
          currency |-> Val(profiles[user_id]).currency,
          risk_tolerance |-> Val(profiles[user_id]).risk_tolerance]
    ELSE DefaultProfile

\* lines 913-915 and 952-954: the 403 becomes a 500
GetUserProfile(caller, user_id) ==
    /\ last' = IF user_id # caller
               THEN Response("get_user_profile", caller, user_id, NoData, 500, 0, 0, NoData)
               ELSE Response("get_user_profile", caller, user_id, NoData, 200, 0, 0,
                             ProfileShown(user_id))
    /\ UNCHANGED <<apart, pending, db, today, trades, nextId, profiles, monthly_returns, fees_configs>>

\* lines 1039-1056: the 403 becomes a 500
GetAccountBalance(caller, user_id) ==
    /\ last' = IF user_id # caller
               THEN Response("get_account_balance", caller, user_id, NoData, 500, 0, 0, NoData)
               ELSE Response("get_account_balance", caller, user_id, NoData, 200, 0, 0,
                             IF db /\ profiles[user_id] # None
                             THEN GetOr(Val(profiles[user_id]).account_balance, DEFAULT_BALANCE)
                             ELSE DEFAULT_BALANCE)
    /\ UNCHANGED <<apart, pending, db, today, trades, nextId, profiles, monthly_returns, fees_configs>>

\* lines 968-990: the validation of the request body p, a dictionary whose
\* missing keys are None
UpdateUserProfileValidation(p) ==
    IF p.account_balance = None THEN 422
    ELSE IF Val(p.account_balance) <= 0 THEN 422
    ELSE IF GetOr(p.risk_tolerance, DEFAULT_RISK_TOLERANCE) < 0
            \/ GetOr(p.risk_tolerance, DEFAULT_RISK_TOLERANCE) > 100 THEN 422
    ELSE 200

\* lines 993-1018: the profile after doc_ref.set(profile_obj, merge=True)
ProfileDocument(stored, p) ==
    [account_balance |-> p.account_balance,
     currency |-> GetOr(p.currency, "USD"),
     risk_tolerance |-> GetOr(p.risk_tolerance, DEFAULT_RISK_TOLERANCE),
     created_at |-> IF stored = None THEN today ELSE Val(stored).created_at,
     updated_at |-> today]

UpdateUserProfile(caller, user_id, p) ==
    LET Answer(code) ==
            /\ last' = Response("update_user_profile", caller, user_id, p, code, 0, 0, NoData)
            /\ UNCHANGED <<apart, pending, db, today, trades, nextId, profiles, monthly_returns, fees_configs>>
    IN IF user_id # caller THEN Answer(403)
       ELSE IF UpdateUserProfileValidation(p) # 200 THEN Answer(422)
       ELSE IF db
       THEN /\ profiles' = [profiles EXCEPT ![user_id] = Some(ProfileDocument(@, p))]
            /\ last' = Response("update_user_profile", caller, user_id, p, 200, 0, 0, NoData)
            /\ UNCHANGED <<apart, pending, db, today, trades, nextId, monthly_returns, fees_configs>>
       ELSE Answer(200)

----------------------------------------------------------------------------
(* /monthly-returns *)

\* lines 1136-1140
MonthlyReturnValidation(m) ==
    IF m.month = "" THEN 422
    ELSE IF m.start_cap <= 0 THEN 422
    ELSE 200

\* lines 1143-1148: the returns computed from the capitals when not supplied
ReturnsComputed(m) ==
    IF m.close_cap # None
    THEN [m EXCEPT
            !.percentage_return =
                IF @ = None
                THEN Some(RMul(Norm(Val(m.close_cap) - m.start_cap, m.start_cap), R(100)))
                ELSE @,
            !.dollar_return = IF @ = None THEN Some(Val(m.close_cap) - m.start_cap) ELSE @]
    ELSE m

\* a lookup that finds nothing
ExistingReturns_NotFound(user_id, month) == {}

\* line 1157: the stored returns of the user for the month
ExistingReturns(user_id, month) ==
    {i \in 1..Len(monthly_returns) : /\ monthly_returns[i].user_id = user_id
                                     /\ monthly_returns[i].month = month}

\* lines 1163-1166: update() with the fields of the request that are not None
ReturnUpdated(stored, m) ==
    [stored EXCEPT !.start_cap = m.start_cap,
                   !.close_cap = Supplied(m.close_cap, @),
                   !.percentage_return = Supplied(m.percentage_return, @),
                   !.dollar_return = Supplied(m.dollar_return, @),
                   !.comments = m.comments,
                   !.updated_at = today]

\* lines 1171-1175
ReturnCreated(user_id, m) ==
    [id |-> nextId.monthly_returns, user_id |-> user_id, month |-> m.month, start_cap |-> m.start_cap,
     close_cap |-> m.close_cap, percentage_return |-> m.percentage_return,
     dollar_return |-> m.dollar_return, comments |-> m.comments,
     created_at |-> today, updated_at |-> today]

CreateOrUpdateMonthlyReturn(caller, req) ==
    LET m == ReturnsComputed(req)
        Answer(code) ==
            /\ last' = Response("create_or_update_monthly_return", caller, caller, req, code, 0, 0, NoData)
            /\ UNCHANGED <<apart, pending, db, today, trades, nextId, profiles, monthly_returns, fees_configs>>
    IN IF MonthlyReturnValidation(req) # 200 THEN Answer(422)
       ELSE IF ~db THEN Answer(200)
       ELSE IF ExistingReturns(caller, m.month) # {}
       THEN \E i \in ExistingReturns(caller, m.month) :
              /\ monthly_returns' = [monthly_returns EXCEPT ![i] = ReturnUpdated(@, m)]
              /\ last' = Response("create_or_update_monthly_return", caller, caller, req, 200,
                                  monthly_returns[i].id, 0, NoData)
              /\ UNCHANGED <<apart, pending, db, today, trades, nextId, profiles, fees_configs>>
       ELSE /\ Len(monthly_returns) < MaxReturns
            /\ nextId.monthly_returns <= MaxReturns
            /\ monthly_returns' = Append(monthly_returns, ReturnCreated(caller, m))
            /\ nextId' = [nextId EXCEPT !.monthly_returns = @ + 1]
            /\ last' = Response("create_or_update_monthly_return", caller, caller, req, 200,
                                0, nextId.monthly_returns, NoData)
            /\ UNCHANGED <<apart, pending, db, today, trades, profiles, fees_configs>>

\* lines 1093-1116: the two records returned without Firestore, by id and
\* month (their amounts are fixed and are left out)
MockReturns(user_id) ==
    << [id |-> 1, user_id |-> user_id, month |-> "December 2024"],
       [id |-> 2, user_id |-> user_id, month |-> "January 2025"] >>

\* lines 1067-1069 and 1119-1120: this handler re-raises the 403
GetMonthlyReturns(caller, user_id) ==
    /\ last' = IF user_id # caller
               THEN Response("get_monthly_returns", caller, user_id, NoData, 403, 0, 0, NoData)
               ELSE Response("get_monthly_returns", caller, user_id, NoData, 200, 0, 0,
                             IF db
                             THEN SelectSeq(monthly_returns, LAMBDA m : m.user_id = user_id)
                             ELSE MockReturns(user_id))
    /\ UNCHANGED <<apart, pending, db, today, trades, nextId, profiles, monthly_returns, fees_configs>>

DeleteMonthlyReturn(caller, return_id) ==
    LET Answer(code) ==
            /\ last' = Response("delete_monthly_return", caller, caller, return_id, code, return_id, 0, NoData)
            /\ UNCHANGED <<apart, pending, db, today, trades, nextId, profiles, monthly_returns, fees_configs>>
    IN IF ~db THEN Answer(200)
       ELSE IF ~HasId(monthly_returns, return_id) THEN Answer(404)
       ELSE IF ById(monthly_returns, return_id).user_id # caller THEN Answer(403)
       ELSE /\ monthly_returns' = Remove(monthly_returns, IndexOf(monthly_returns, return_id))
            /\ last' = Response("delete_monthly_return", caller, caller, return_id, 200, return_id, 0, NoData)
            /\ UNCHANGED <<apart, pending, db, today, trades, nextId, profiles, fees_configs>>

----------------------------------------------------------------------------
(* /fees-config *)

\* the fee parameters of FeesConfig, lines 180-189
FeeFields ==
    {"brokerage_percentage", "brokerage_max_usd",
     "exchange_transaction_charges_percentage", "ifsca_turnover_fees_percentage",
     "platform_fee_usd", "withdrawal_fee_usd", "amc_yearly_usd",
     "account_opening_fee_usd", "tracking_charges_usd", "profile_verification_fee_usd"}

\* their defaults
FeeDefault(k) ==
    CASE k = "brokerage_percentage" -> <<1, 4>>
      [] k = "brokerage_max_usd" -> <<25, 1>>
      [] k = "exchange_transaction_charges_percentage" -> <<3, 25>>
      [] k = "ifsca_turnover_fees_percentage" -> <<1, 10000>>
      [] OTHER -> <<0, 1>>

\* the FeesConfig pydantic builds from a request body f, a function from the
\* fee parameters the body carries to their values
FeesParsed(f) == [k \in FeeFields |-> IF k \in DOMAIN f THEN f[k] ELSE FeeDefault(k)]

\* lines 1289-1305
FeesValidation(c) ==
    IF RLt(c["brokerage_percentage"], R(0)) \/ RLt(R(10), c["brokerage_percentage"]) THEN 422
    ELSE IF \E k \in FeeFields : RLt(c[k], R(0)) THEN 422
    ELSE 200

\* lines 1315-1327: the document after doc_ref.set(config_data, merge=True);
\* config_data carries every field of the model, created_at too, which is
\* None when the document exists
FeesDocument(stored, c) ==
    [fees |-> c,
     created_at |-> IF stored = None THEN Some(today) ELSE None,
     updated_at |-> today]

SaveFeesConfig(caller, f) ==
    LET Answer(code) ==
            /\ last' = Response("save_fees_config", caller, caller, f, code, 0, 0, NoData)
            /\ UNCHANGED <<apart, pending, db, today, trades, nextId, profiles, monthly_returns, fees_configs>>
    IN IF FeesValidation(FeesParsed(f)) # 200 THEN Answer(422)
       ELSE IF db
       THEN /\ fees_configs' = [fees_configs EXCEPT ![caller] = Some(FeesDocument(@, FeesParsed(f)))]
            /\ last' = Response("save_fees_config", caller, caller, f, 200, 0, 0, NoData)
            /\ UNCHANGED <<apart, pending, db, today, trades, nextId, profiles, monthly_returns>>
       ELSE Answer(200)

\* lines 1242-1244 and 1272-1273: this handler re-raises the 403
GetFeesConfig(caller, user_id) ==
    /\ last' = IF user_id # caller
               THEN Response("get_fees_config", caller, user_id, NoData, 403, 0, 0, NoData)
               ELSE Response("get_fees_config", caller, user_id, NoData, 200, 0, 0,
                             IF db /\ fees_configs[user_id] # None
                             THEN Val(fees_configs[user_id]).fees
                             ELSE FeesParsed(<<>>))
    /\ UNCHANGED <<apart, pending, db, today, trades, nextId, profiles, monthly_returns, fees_configs>>

----------------------------------------------------------------------------
(* Time passing: datetime.now() moves on between requests *)

Tick ==
    /\ today < MaxDay
    /\ today' = today + 1
    /\ last' = Response("tick", "", "", NoData, 0, 0, 0, NoData)
    /\ UNCHANGED <<apart, pending, db, trades, nextId, profiles, monthly_returns, fees_configs>>

----------------------------------------------------------------------------
(* The campaign scripts, backend/email_scripts.  A run of a script is one  *)
(* action.  R is send_reminder_emails.py, W send_weekly_summary.py and U   *)
(* send_update_emails.py in the comments.                                  *)

\* the last day of a behaviour with campaigns
Horizon == 9

\* the emails handed to the email service in a behaviour
MaxMail == 2

\* the days of inactivity of --days by default (R line 306) and the week of
\* W lines 90 and 228
WEEK == 7

\* the days during which a reminder is not repeated, R line 244
REMINDER_INTERVAL == 7

\* auth.list_users(): a user who signed in on day 0, one who never signed
\* in, and one without email
AuthUsers ==
    << [uid |-> "user123", email |-> Some("a@x"), last_sign_in |-> Some(0)],
       [uid |-> "u2", email |-> Some("b@x"), last_sign_in |-> None],
       [uid |-> "u3", email |-> None, last_sign_in |-> Some(0)] >>

\* the command lines: --live, --dry-run and --test-email
Flags == [live : BOOLEAN, dry_run : BOOLEAN, test_email : {None, Some("t@x")}]

\* --live wins over --dry-run
DryRun_LiveWins(args) == ~args.live

\* R line 331, W line 434, U line 587:
\* dry_run = not args.live if not args.dry_run else True
DryRun(args) == IF ~args.dry_run THEN ~args.live ELSE TRUE

\* the field of users/{uid} a script has written, or None
MarkerOf(field, uid) ==
    IF \E m \in markers : m.field = field /\ m.uid = uid
    THEN Some((CHOOSE m \in markers : m.field = field /\ m.uid = uid).at)
    ELSE None

\* R lines 107-153: the users to remind, in the order of the listing; the
\* stored reminder_email_sent_at is read for the users who have signed in
\* only
get_inactive_users(days_inactive) ==
    IF ~db THEN <<>>
    ELSE LET cutoff_date == today - days_inactive
             inactive == SelectSeq(AuthUsers, LAMBDA user :
                            /\ user.email # None
                            /\ user.last_sign_in # None => Val(user.last_sign_in) < cutoff_date)
         IN [i \in 1..Len(inactive) |->
                [uid |-> inactive[i].uid, email |-> Val(inactive[i].email),
                 reminder_email_sent_at |->
                    IF inactive[i].last_sign_in # None
                    THEN MarkerOf("reminder_email_sent_at", inactive[i].uid)
                    ELSE None]]

\* R lines 232-248: the users whose reminder is not less than 7 days old
users_to_email(inactive_users) ==
    SelectSeq(inactive_users, LAMBDA user :
        ~(/\ user.reminder_email_sent_at # None
          /\ today - Val(user.reminder_email_sent_at) < REMINDER_INTERVAL))

\* W lines 85-110: the user has a trade dated in the last 7 days
HasWeeklyTrades(uid) ==
    \E i \in Idx(trades) : trades[i].user_id = uid /\ trades[i].date >= today - WEEK

\* W lines 208-256
get_eligible_users(active_only) ==
    IF ~db THEN <<>>
    ELSE LET week_ago == today - WEEK
             eligible == SelectSeq(AuthUsers, LAMBDA user :
                            /\ user.email # None
                            /\ active_only =>
                                (user.last_sign_in # None /\ ~(Val(user.last_sign_in) < week_ago))
                            /\ HasWeeklyTrades(user.uid))
         IN [i \in 1..Len(eligible) |-> [uid |-> eligible[i].uid, email |-> Val(eligible[i].email)]]

\* U lines 85-139, with the default limit
get_all_users ==
    IF ~db THEN <<>>
    ELSE LET users == SelectSeq(AuthUsers, LAMBDA user : user.email # None)
         IN [i \in 1..Len(users) |-> [uid |-> users[i].uid, email |-> Val(users[i].email)]]

\* how one send ends: the email is handed over and the marker written; the
\* email service answers False or raises; the email is handed over and the
\* write of the marker raises ("Email sent but could not update database")
Outcomes(field) == IF field = "" THEN {"sent", "failed"} ELSE {"sent", "failed", "unmarked"}

\* R lines 162-198, W lines 258-294, U lines 446-476, over the users of the
\* run: the emails handed to the email service
Handed(kind, users, outcome) ==
    LET done == SelectSeq([i \in 1..Len(users) |-> [to |-> users[i].email, ok |-> outcome[i] # "failed"]],
                          LAMBDA e : e.ok)
    IN [i \in 1..Len(done) |-> [kind |-> kind, to |-> done[i].to, at |-> today]]

\* and the markers set(..., merge=True) leaves in users/{uid}
Marked(field, users, outcome) ==
    LET written == {users[i].uid : i \in {i \in 1..Len(users) : outcome[i] = "sent"}}
    IN IF field = "" \/ ~db THEN markers
       ELSE {m \in markers : ~(m.field = field /\ m.uid \in written)}
            \cup {[field |-> field, uid |-> uid, at |-> today] : uid \in written}

\* the run ends and the store and the outbox are as they were; status is
\* the exit status of the script
Ends(op, args, status) ==
    /\ last' = Response(op, "", "", args, status, 0, 0, 0)
    /\ UNCHANGED <<inflight, markers, outbox, pending, db, today, trades, nextId, profiles,
                   monthly_returns, fees_configs>>

\* the loop over the users of a run: send_*_email for each of them
Sends(op, args, kind, field, users) ==
    IF DryRun(args) THEN Ends(op, args, 0)
    ELSE \E outcome \in [1..Len(users) -> Outcomes(field)] :
            /\ Len(outbox) + Len(users) <= MaxMail
            /\ outbox' = outbox \o Handed(kind, users, outcome)
            /\ markers' = Marked(field, users, outcome)
            /\ last' = Response(op, "", "", args, 0, 0, 0, Len(Handed(kind, users, outcome)))
            /\ UNCHANGED <<inflight, pending, db, today, trades, nextId, profiles,
                           monthly_returns, fees_configs>>

\* the user of --test-email
TestUser(args) == <<[uid |-> "test", email |-> Val(args.test_email)]>>

\* R line 266, W 356, U 521: a live run asks "Do you want to continue?"
Confirmed(op, args, kind, field, users) ==
    \/ Sends(op, args, kind, field, users)
    \/ ~DryRun(args) /\ Ends(op, args, 0)

\* R lines 200-293.  The subtraction of line 244 raises TypeError when the
\* store returns reminder_email_sent_at with a time zone, datetime.now()
\* having none: main then exits with status 1 (lines 344-346)
run_reminder_campaign(args) ==
    LET op == "run_reminder_campaign"
        inactive_users == get_inactive_users(WEEK)
    IN IF args.test_email # None
       THEN Sends(op, args, "reminder", "reminder_email_sent_at", TestUser(args))
       ELSE IF Len(inactive_users) = 0 THEN Ends(op, args, 0)
       ELSE \/ /\ \E i \in 1..Len(inactive_users) : inactive_users[i].reminder_email_sent_at # None
               /\ Ends(op, args, 1)
            \/ IF Len(users_to_email(inactive_users)) = 0 THEN Ends(op, args, 0)
               ELSE Confirmed(op, args, "reminder", "reminder_email_sent_at",
                              users_to_email(inactive_users))

\* W lines 296-392
run_weekly_summary_campaign(args, active_only) ==
    LET op == "run_weekly_summary_campaign"
        eligible_users == get_eligible_users(active_only)
    IN IF args.test_email # None
       THEN Sends(op, args, "weekly_summary", "weekly_summary_sent_at", TestUser(args))
       ELSE IF Len(eligible_users) = 0 THEN Ends(op, args, 0)
       ELSE Confirmed(op, args, "weekly_summary", "weekly_summary_sent_at", eligible_users)

\* U lines 478-550
run_update_campaign(args) ==
    LET op == "run_update_campaign"
        users == get_all_users
    IN IF args.test_email # None THEN Sends(op, args, "update", "", TestUser(args))
       ELSE IF Len(users) = 0 THEN Ends(op, args, 0)
       ELSE Confirmed(op, args, "update", "", users)

\* datetime.now() moves on between runs
Elapse ==
    /\ today < Horizon
    /\ today' = today + 1
    /\ last' = Response("tick", "", "", NoData, 0, 0, 0, NoData)
    /\ UNCHANGED <<apart, pending, db, trades, nextId, profiles, monthly_returns, fees_configs>>

----------------------------------------------------------------------------
(* The state after the module is loaded, on any day: the Firestore client  *)
(* or None (line 81), an empty database or MOCK_TRADES.                    *)

Loaded ==
    /\ db \in BOOLEAN
    /\ today \in 1..MaxDay
    /\ trades = IF db THEN <<>> ELSE MOCK_TRADES
    /\ nextId = [trades |-> 1, monthly_returns |-> 1]
    /\ profiles = [u \in Users |-> None]
    /\ monthly_returns = <<>>
    /\ fees_configs = [u \in Users |-> None]
    /\ last = Response("init", "", "", NoData, 0, 0, 0, NoData)
    /\ inflight = {}
    /\ markers = {}
    /\ outbox = <<>>

\* no request is waiting
Init == Loaded /\ pending = None

----------------------------------------------------------------------------
(* Requests *)

TradePayload(user_id, date, ticker, buy_price, sell_price, shares, risk, risk_dollars, account_balance, notes, status) ==
    [user_id |-> user_id, date |-> date, ticker |-> ticker, buy_price |-> buy_price,
     sell_price |-> sell_price, shares |-> shares, risk |-> risk,
     risk_dollars |-> risk_dollars, account_balance |-> account_balance,
     notes |-> notes, status |-> status]

ExitRequests(tickers, shares, prices, notes) ==
    [ticker : tickers, shares_to_exit : shares, sell_price : prices, notes : notes]

\* an UpdateTradeRequest with no field supplied
NoUpdate ==
    [date |-> None, ticker |-> None, buy_price |-> None, sell_price |-> None,
     shares |-> None, risk |-> None, risk_dollars |-> None, account_balance |-> None,
     notes |-> None, status |-> None]

----------------------------------------------------------------------------
(* SpecExit: lots are entered and exited.  Shares are small numbers of     *)
(* ticks, so that exits leave remainders on both sides of the tolerance.   *)

LotShares == 4

ExitShares == 0..(LotShares + 1)

LotPayloads ==
    {TradePayload(u, 1, "AAPL", Some(10), None, LotShares, Some(R(2)), None, None, "n", "open") :
        u \in Users}

\* the callers and the users they name in the path
Paths == {<<"user123", "user123">>, <<"u2", "u2">>, <<"u2", "user123">>}

NextExit ==
    \/ \E t \in LotPayloads : AddTrade(t.user_id, t)
    \/ \E path \in Paths, r \in ExitRequests({"AAPL"}, ExitShares, {12}, {"x"}) :
            ExitTrade(path[1], path[2], r)

\* the requests of one day, the last the model has
InitOnDay == Init /\ today = MaxDay

SpecExit == InitOnDay /\ [][NextExit]_vars

----------------------------------------------------------------------------
(* Spec: the handlers of the trades, the profile, the monthly returns and  *)
(* the fees, each with requests that pass and requests that fail each of   *)
(* its checks.                                                             *)

\* a lot that passes the validation, and a payload without risk
EntryPayloads(u) ==
    {TradePayload(u, 1, "AAPL", Some(10), None, LotShares, Some(R(2)), None, None, "n", "open"),
     TradePayload(u, 1, "AAPL", Some(10), None, LotShares, None, None, None, "n", "open")}

\* the notes saved again; a closing without a new sell price
TradeUpdates ==
    {[NoUpdate EXCEPT !.notes = Some("n")], [NoUpdate EXCEPT !.status = Some("closed")]}

ProfileBodies ==
    {[account_balance |-> None, currency |-> None, risk_tolerance |-> None],
     [account_balance |-> Some(5000), currency |-> Some("EUR"), risk_tolerance |-> Some(101)],
     [account_balance |-> Some(5000), currency |-> Some("EUR"), risk_tolerance |-> Some(1)]}

MonthlyReturn(month, start_cap, close_cap) ==
    [month |-> month, start_cap |-> start_cap, close_cap |-> close_cap,
     percentage_return |-> None, dollar_return |-> None, comments |-> ""]

ReturnBodies ==
    {MonthlyReturn("", 100, None), MonthlyReturn("December 2024", 0, None),
     MonthlyReturn("December 2024", 100, Some(150))}

\* a body with defaults only, one with a brokerage out of range, one with a
\* negative fee
FeeBodies ==
    {<<>>, [k \in {"brokerage_percentage"} |-> R(11)], [k \in {"platform_fee_usd"} |-> R(-1)]}

\* user123 on their own data, and u2 on the data of user123
OwnerPaths == {<<"user123", "user123">>, <<"u2", "user123">>}

\* the first document, and an id no document has
SomeIds == {1, MaxIds + 1}

Next ==
    \/ \E t \in EntryPayloads("user123") : AddTrade("user123", t)
    \/ \E path \in OwnerPaths, r \in ExitRequests({"AAPL"}, {LotShares, LotShares + 1}, {12}, {""}) :
            ExitTrade(path[1], path[2], r)
    \/ \E caller \in Users, id \in SomeIds, u \in TradeUpdates : UpdateTrade(caller, id, u)
    \/ \E caller \in Users, id \in SomeIds : DeleteTrade(caller, id)
    \/ \E path \in OwnerPaths : GetTrades(path[1], path[2], None, None)
    \/ \E path \in OwnerPaths : GetMetrics(path[1], path[2], None, None)
    \/ \E path \in OwnerPaths : GetUserProfile(path[1], path[2])
    \/ \E path \in OwnerPaths : GetAccountBalance(path[1], path[2])
    \/ \E path \in OwnerPaths, p \in ProfileBodies : UpdateUserProfile(path[1], path[2], p)
    \/ \E path \in OwnerPaths : GetMonthlyReturns(path[1], path[2])
    \/ \E m \in ReturnBodies : CreateOrUpdateMonthlyReturn("user123", m)
    \/ \E path \in OwnerPaths : GetFeesConfig(path[1], path[2])
    \/ \E f \in FeeBodies : SaveFeesConfig("user123", f)

Spec == InitOnDay /\ [][Next]_vars

----------------------------------------------------------------------------
(* SpecEntry: one trade form, any of EntryForms, that a client submits to  *)
(* POST /add-trade, once or again, while the profiles are being set.       *)

EntryPrices == {None, Some(0), Some(10)}
EntryRisks ==
    {<<None, None>>, <<Some(R(0)), None>>, <<None, Some(R(0))>>, <<Some(R(0)), Some(R(0))>>,
     <<Some(R(2)), None>>, <<None, Some(R(150))>>, <<Some(R(2)), Some(R(150))>>,
     <<Some(R(2)), Some(R(0))>>}
EntryBalances == {None, Some(0), Some(5000), Some(0 - 5000)}

\* the caller of the request and its body; path[2] is the user_id of the body
EntryForms ==
    {[caller |-> path[1],
      trade |-> TradePayload(path[2], 1, "AAPL", buy_price, sell_price, LotShares,
                             risk[1], risk[2], account_balance, "n", status)] :
        path \in Paths, buy_price \in EntryPrices, sell_price \in EntryPrices,
        risk \in EntryRisks, account_balance \in EntryBalances, status \in {"open", "closed"}}

\* line 222: the request body pydantic has parsed is handed to add_trade
SubmitPending == pending # None /\ AddTrade(Val(pending).caller, Val(pending).trade)

ProfileSet == [account_balance |-> Some(20000), currency |-> None, risk_tolerance |-> None]

NextEntry ==
    \/ SubmitPending
    \/ \E u \in Users : UpdateUserProfile(u, u, ProfileSet)

InitEntry == Loaded /\ today = MaxDay /\ pending \in {Some(f) : f \in EntryForms}

SpecEntry == InitEntry /\ [][NextEntry]_vars

----------------------------------------------------------------------------
(* SpecSnapshot: trades entered, the profile balance changed, and the      *)
(* risk of the first trade edited afterwards.                              *)

\* the balances a profile is set to
ProfileBalances == {5000, 20000}

\* a risk percentage with the dollars cleared, the dollars with the
\* percentage cleared, the same with a balance, and a percentage alone
RiskUpdates ==
    {[NoUpdate EXCEPT !.risk = Some(R(3)), !.risk_dollars = Some(R(0))],
     [NoUpdate EXCEPT !.risk = Some(R(0)), !.risk_dollars = Some(R(150))],
     [NoUpdate EXCEPT !.risk = Some(R(3)), !.risk_dollars = Some(R(0)),
                      !.account_balance = Some(8000)],
     [NoUpdate EXCEPT !.risk = Some(R(3))]}

NextSnapshot ==
    \/ \E t \in LotPayloads : AddTrade("user123", t)
    \/ \E b \in ProfileBalances :
            UpdateUserProfile("user123", "user123",
                              [account_balance |-> Some(b), currency |-> None,
                               risk_tolerance |-> None])
    \/ \E u \in RiskUpdates : UpdateTrade("user123", 1, u)

SpecSnapshot == InitOnDay /\ [][NextSnapshot]_vars

----------------------------------------------------------------------------
(* SpecUpdate: trades entered by user123, and the first of them edited by  *)
(* its owner and by u2.                                                    *)

\* an open lot; a closed trade entered without a buy price; an open lot with
\* a negative balance, whose risk_dollars stays 0
EditedPayloads ==
    {TradePayload("user123", 1, "AAPL", Some(10), None, LotShares, Some(R(2)), None, None, "n", "open"),
     TradePayload("user123", 1, "AAPL", None, Some(12), LotShares, None, Some(R(150)), None, "n", "closed"),
     TradePayload("user123", 1, "AAPL", Some(10), None, LotShares, Some(R(2)), Some(R(0)),
                  Some(0 - 5000), "n", "open")}

\* a closing; a closing with a price; a re-opening; the ticker, the shares,
\* the date and the notes; a balance; a risk percentage with the dollars
\* cleared
Edits ==
    {[NoUpdate EXCEPT !.status = Some("closed")],
     [NoUpdate EXCEPT !.status = Some("closed"), !.sell_price = Some(12)],
     [NoUpdate EXCEPT !.status = Some("open")],
     [NoUpdate EXCEPT !.ticker = Some("msft"), !.shares = Some(LotShares + 3),
                      !.date = Some(MaxDay), !.notes = Some("m")],
     [NoUpdate EXCEPT !.account_balance = Some(8000)],
     [NoUpdate EXCEPT !.risk = Some(R(3)), !.risk_dollars = Some(R(0))]}

\* the id of the first trade add_trade stores
FirstAdded == IF db THEN 1 ELSE Len(MOCK_TRADES) + 1

NextUpdate ==
    \/ \E t \in EditedPayloads : AddTrade("user123", t)
    \/ \E caller \in Users, id \in {FirstAdded, MaxIds + 1}, u \in Edits :
            UpdateTrade(caller, id, u)

SpecUpdate == InitOnDay /\ [][NextUpdate]_vars

----------------------------------------------------------------------------
(* SpecDates: lots entered with the date of the day, closed on the same    *)
(* day or a later one, and listed and measured over date windows.          *)

\* no bound, or a day
Windows == {None} \cup {Some(d) : d \in 1..MaxDay}

DatedLot(u) ==
    TradePayload(u, today, "AAPL", Some(10), None, LotShares, Some(R(2)), None, None, "n", "open")

NextDates ==
    \/ \E u \in Users : AddTrade(u, DatedLot(u))
    \/ \E r \in ExitRequests({"AAPL"}, {LotShares}, {12}, {""}) :
            ExitTrade("user123", "user123", r)
    \/ \E from_date \in Windows, to_date \in Windows :
            GetTrades("user123", "user123", from_date, to_date)
    \/ \E from_date \in Windows, to_date \in Windows :
            GetMetrics("user123", "user123", from_date, to_date)
    \/ Tick

SpecDates == Init /\ [][NextDates]_vars

----------------------------------------------------------------------------
(* The metrics: closed trades of several outcomes are entered and          *)
(* get_metrics is read without a window                                    *)

ClosedPayload(u, buy_price, sell_price, shares) ==
    TradePayload(u, today, "AAPL", buy_price, Some(sell_price), shares, Some(R(2)), None, None,
                 "n", "closed")

\* a gain of 6, a loss of 1 (less than a dollar), a loss of 4, a trade that
\* breaks even, a trade bought at 0, a trade without buy_price, an open
\* trade, and a gain of another user
MetricsPayloads ==
    {ClosedPayload("user123", Some(10), 12, 3),
     ClosedPayload("user123", Some(10), 9, 1),
     ClosedPayload("user123", Some(12), 10, 2),
     ClosedPayload("user123", Some(10), 10, 1),
     ClosedPayload("user123", Some(0), 12, 1),
     ClosedPayload("user123", None, 12, 1),
     DatedLot("user123"),
     ClosedPayload("u2", Some(10), 12, 3)}

NextMetrics ==
    \/ \E t \in MetricsPayloads : AddTrade(t.user_id, t)
    \/ \E caller \in Users : GetMetrics(caller, "user123", None, None)

SpecMetrics == InitOnDay /\ [][NextMetrics]_vars

----------------------------------------------------------------------------
(* The monthly returns: two users post, post again, delete and list, on    *)
(* successive days                                                         *)

\* a month, the same month with other capitals, another month, and a body
\* without a month
UpsertBodies ==
    {MonthlyReturn("December 2024", 100, None), MonthlyReturn("December 2024", 200, Some(150)),
     MonthlyReturn("January 2025", 100, None), MonthlyReturn("", 100, None)}

NextReturns ==
    \/ \E caller \in Users, m \in UpsertBodies : CreateOrUpdateMonthlyReturn(caller, m)
    \/ \E caller \in Users, id \in 1..MaxReturns : DeleteMonthlyReturn(caller, id)
    \/ \E caller \in Users : GetMonthlyReturns(caller, "user123")
    \/ Tick

SpecReturns == Init /\ [][NextReturns]_vars

----------------------------------------------------------------------------
(* The tickers: a lot is entered under a ticker in lower or upper case,    *)
(* renamed, and exited under either spelling                               *)

Spellings == {"aapl", "AAPL"}

SpelledLot(ticker) ==
    TradePayload("user123", today, ticker, Some(10), None, LotShares, Some(R(2)), None, None,
                 "n", "open")

NextTicker ==
    \/ \E ticker \in Spellings : AddTrade("user123", SpelledLot(ticker))
    \/ \E r \in ExitRequests(Spellings, {LotShares}, {12}, {""}) : ExitTrade("user123", "user123", r)
    \/ \E id \in 1..MaxIds, ticker \in Spellings \cup {"msft"} :
            UpdateTrade("user123", id, [NoUpdate EXCEPT !.ticker = Some(ticker)])

SpecTicker == InitOnDay /\ [][NextTicker]_vars

----------------------------------------------------------------------------
(* The settings: a profile and a fees configuration are saved in full and  *)
(* then saved again with fields left out                                   *)

\* every field; the balance alone; the balance and the currency
SettingsBodies ==
    {[account_balance |-> Some(5000), currency |-> Some("EUR"), risk_tolerance |-> Some(1)],
     [account_balance |-> Some(6000), currency |-> None, risk_tolerance |-> None],
     [account_balance |-> Some(6000), currency |-> Some("INR"), risk_tolerance |-> None]}

\* two fee parameters; one of them; none
FeeSettings ==
    {[k \in {"brokerage_percentage", "platform_fee_usd"} |-> IF k = "platform_fee_usd" THEN R(5) ELSE R(1)],
     [k \in {"brokerage_percentage"} |-> R(2)],
     <<>>}

NextSettings ==
    \/ \E caller \in Users, p \in SettingsBodies : UpdateUserProfile(caller, caller, p)
    \/ \E caller \in Users, f \in FeeSettings : SaveFeesConfig(caller, f)
    \/ \E caller \in Users : GetUserProfile(caller, caller)
    \/ \E caller \in Users : GetFeesConfig(caller, caller)

SpecSettings == InitOnDay /\ [][NextSettings]_vars

----------------------------------------------------------------------------
(* The campaigns: the three scripts are run with every command line, on    *)
(* one day, over a store in which user123 has a trade of the week          *)

NextCampaigns ==
    \/ AddTrade("user123", DatedLot("user123"))
    \/ \E args \in Flags : run_reminder_campaign(args)
    \/ \E args \in Flags, active_only \in BOOLEAN : run_weekly_summary_campaign(args, active_only)
    \/ \E args \in Flags : run_update_campaign(args)

SpecCampaigns == InitOnDay /\ [][NextCampaigns]_vars

----------------------------------------------------------------------------
(* The reminders: the reminder script is run live, without --test-email,   *)
(* day after day                                                           *)

LiveFlags == [live |-> TRUE, dry_run |-> FALSE, test_email |-> None]

NextReminders ==
    \/ run_reminder_campaign(LiveFlags)
    \/ Elapse

\* the first run is on day 1
InitReminders == Init /\ today = 1

SpecReminders == InitReminders /\ [][NextReminders]_vars

----------------------------------------------------------------------------
(* The writes of exit_trade: user123 enters one lot, and the server        *)
(* processes take exits of it, each stopping at any write.                 *)

\* the shares asked to exit: a part that leaves more than the tolerance,
\* the lot, and a negative number
StepShares == {-1, LotShares \div 2, LotShares}

NextSteps ==
    \/ trades = <<>> /\ AddTrade("user123", DatedLot("user123"))
    \/ \E worker \in Workers, r \in ExitRequests({"AAPL"}, StepShares, {12}, {"x"}) :
            ExitRead(worker, "user123", r)
    \/ \E worker \in Workers : ExitWrite(worker)
    \/ \E worker \in Workers : ExitStop(worker)

SpecSteps == InitOnDay /\ [][NextSteps]_vars

----------------------------------------------------------------------------
(* One lot: user123 enters a lot of MSFT, the only trade of that ticker,   *)
(* and exits it request after request.                                     *)

MsftLot ==
    TradePayload("user123", today, "MSFT", Some(10), None, LotShares, Some(R(2)), None, None,
                 "n", "open")

\* the shares asked to exit, from a negative number to one more than the lot
LotExits == (-1)..(LotShares + 1)

NextLot ==
    \/ last.op = "init" /\ AddTrade("user123", MsftLot)
    \/ \E r \in ExitRequests({"MSFT"}, LotExits, {12}, {"", "x"}) : ExitTrade("user123", "user123", r)

SpecLot == Init /\ [][NextLot]_vars

----------------------------------------------------------------------------
(* The owners: both users enter lots, exit, edit, delete and list them,    *)
(* and u2 names user123 and the trades of user123 in its requests.         *)

\* the first two documents, and an id no document has
OwnerIds == {1, 2, MaxIds + 1}

\* the notes rewritten
NotesUpdate == [NoUpdate EXCEPT !.notes = Some("m")]

NextOwners ==
    \/ \E path \in Paths : AddTrade(path[1], DatedLot(path[2]))
    \/ \E path \in Paths, r \in ExitRequests({"AAPL"}, {LotShares \div 2}, {12}, {""}) :
            ExitTrade(path[1], path[2], r)
    \/ \E caller \in Users, id \in OwnerIds : UpdateTrade(caller, id, NotesUpdate)
    \/ \E caller \in Users, id \in OwnerIds : DeleteTrade(caller, id)
    \/ \E path \in Paths : GetTrades(path[1], path[2], None, None)

SpecOwners == InitOnDay /\ [][NextOwners]_vars

----------------------------------------------------------------------------
(* Claims on exit_trade.  A step of exit_trade is one whose response       *)
(* last' answers an exit_trade request; target is the trade it located.    *)

ExitStep == last'.op = "exit_trade" /\ last' # last

ExitDone == ExitStep /\ last'.code = 200

\* every trade but the one with this id is as it was, in its place
OthersKept(id) ==
    \A i \in Idx(trades) : trades[i].id # id => (i \in Idx(trades') /\ trades'[i] = trades[i])

\* the partial-exit outcome for the trade target, s shares exited at price
PartialOutcome(target, s, price) ==
    LET before == ById(trades, target)
        after == ById(trades', target)
        leg == trades'[Len(trades')]
    IN /\ Len(trades') = Len(trades) + 1
       /\ ~HasId(trades, leg.id)
       /\ leg.status = "closed"
       /\ leg.shares = s
       /\ leg.sell_price = Some(price)
       /\ leg.date = before.date
       /\ leg.buy_price = before.buy_price
       /\ after.shares = before.shares - s
       /\ after.status = "open"
       /\ OthersKept(target)

\* C1 as stated: a successful exit of s shares, 0 < s < C, from an open trade
\* holding C creates one closed record of s shares at the given price with the
\* original's date and buy_price, and leaves the original open with C - s.
C1_AsStated ==
    [][(ExitDone /\ 0 < last'.req.shares_to_exit
                 /\ last'.req.shares_to_exit < ById(trades, last'.target).shares)
         => PartialOutcome(last'.target, last'.req.shares_to_exit, last'.req.sell_price)]_vars

\* C1, amended: the same outcome whenever 0 < s and the remainder C - s is at
\* least the tolerance (1e-10).
C1_PartialExit ==
    [][(ExitDone /\ 0 < last'.req.shares_to_exit
                 /\ ById(trades, last'.target).shares - last'.req.shares_to_exit >= EPS)
         => PartialOutcome(last'.target, last'.req.shares_to_exit, last'.req.sell_price)]_vars

\* a partial exit has just split a lot: the leg is stored, the lot is open
\* with a remainder of at least the tolerance
C1_Witness ==
    /\ last.op = "exit_trade" /\ last.code = 200 /\ last.created # 0
    /\ last.req.shares_to_exit > 0
    /\ HasId(trades, last.created) /\ ById(trades, last.created).status = "closed"
    /\ ById(trades, last.target).status = "open"
    /\ ById(trades, last.target).shares >= EPS

\* C2: a successful exit of s shares from an open trade holding C, with s = C
\* (or, with Firestore, C - s below the tolerance), closes that record in
\* place with shares s, the given sell_price and the exit date, and the number
\* of records is unchanged.
C2_FullExit ==
    [][(ExitDone /\ LET C == ById(trades, last'.target).shares
                        s == last'.req.shares_to_exit
                    IN s = C \/ (db /\ s <= C /\ C - s < EPS))
         => LET after == ById(trades', last'.target)
            IN /\ Len(trades') = Len(trades)
               /\ Ids(trades') = Ids(trades)
               /\ after.status = "closed"
               /\ after.shares = last'.req.shares_to_exit
               /\ after.sell_price = Some(last'.req.sell_price)
               /\ after.exit_date = Some(today)
               /\ OthersKept(last'.target)]_vars

\* a full exit has just closed a lot in place
C2_Witness ==
    /\ last.op = "exit_trade" /\ last.code = 200 /\ last.created = 0
    /\ ById(trades, last.target).status = "closed"
    /\ ById(trades, last.target).shares = last.req.shares_to_exit
    /\ ById(trades, last.target).exit_date # None

\* C3: an exit by the owner fails with 404 when the owner has no open trade
\* for the ticker and with 400 when the request exceeds the shares of the open
\* trades it can locate, and only then; either way the store is unchanged.
C3_ExitErrors ==
    [][ExitStep =>
         LET open == OpenTrades(last'.user, last'.req.ticker)
             s == last'.req.shares_to_exit
         IN /\ (last'.caller = last'.user /\ open = {})
                  => (last'.code = 404 /\ trades' = trades)
            /\ (last'.caller = last'.user /\ open # {} /\ \A i \in open : s > trades[i].shares)
                  => (last'.code = 400 /\ trades' = trades)
            /\ last'.code = 404 => (open = {} /\ trades' = trades)
            /\ last'.code = 400 => ((\E i \in open : s > trades[i].shares) /\ trades' = trades)]_vars

\* an exit for more shares than the open lot holds has just been refused
C3_Witness ==
    /\ last.op = "exit_trade" /\ last.code = 400
    /\ \E i \in OpenTrades(last.user, last.req.ticker) :
          last.req.shares_to_exit > trades[i].shares

\* an exit with no open lot has just been refused
C3_WitnessNotFound ==
    /\ last.op = "exit_trade" /\ last.code = 404
    /\ \E i \in Idx(trades) : trades[i].ticker = last.req.ticker /\ trades[i].status = "closed"

----------------------------------------------------------------------------
(* Claims on the failures of the writing handlers, and on the access check *)
(* of the per-user endpoints.                                              *)

Writers ==
    {"add_trade", "exit_trade", "update_trade", "delete_trade",
     "create_or_update_monthly_return", "save_fees_config", "update_user_profile"}

\* C4: whenever add_trade, exit_trade, update_trade, delete_trade,
\* create_or_update_monthly_return, save_fees_config or update_user_profile
\* ends with a validation (422, 400), not-found (404) or access-denied (403)
\* failure, the trades, the profiles, the monthly returns and the fees
\* configurations are exactly as they were before the call.
C4_FailuresChangeNothing ==
    [][(last'.op \in Writers /\ last'.code \in Failures) => UNCHANGED stores]_vars

\* a refused update of a stored trade, with a profile, a monthly return and a
\* fees configuration stored as well
C4_Witness ==
    /\ last.op = "update_trade" /\ last.code = 422
    /\ Len(trades) > 0
    /\ profiles["user123"] # None
    /\ monthly_returns # <<>>
    /\ fees_configs["user123"] # None

PerUser ==
    {"get_trades", "get_metrics", "exit_trade", "get_user_profile", "update_user_profile",
     "get_account_balance", "get_monthly_returns", "get_fees_config"}

\* C6: every per-user endpoint called with a path user_id different from the
\* authenticated caller answers with an access-denied failure (403), not a
\* generic server error, and returns no data of that user.
C6_AccessDenied ==
    (last.op \in PerUser /\ last.user # last.caller) => (last.code = 403 /\ last.data = NoData)

\* what holds: no data of the user is returned, whatever the failure is
C6_NoData ==
    (last.op \in PerUser /\ last.user # last.caller) => (last.code \in {403, 500} /\ last.data = NoData)

----------------------------------------------------------------------------
(* Claims on add_trade.                                                    *)

AddStep == last'.op = "add_trade" /\ last' # last

\* one record more, with the id the response returns, and the others as
\* they were
Added ==
    /\ Len(trades') = Len(trades) + 1
    /\ \A i \in Idx(trades) : trades'[i] = trades[i]
    /\ trades'[Len(trades')].id = last'.created

\* C5: add_trade stores the new trade with user_id equal to the
\* authenticated caller, whatever user_id the payload carries; no add_trade
\* call creates a trade owned by another user than its caller.
C5_OwnerIsCaller ==
    [][AddStep =>
         /\ last'.code = 200 => Added
         /\ \A i \in Idx(trades') : i > Len(trades) => trades'[i].user_id = last'.caller]_vars

\* a trade stored for the caller from a payload that names another user
C5_Witness ==
    /\ last.op = "add_trade" /\ last.code = 200
    /\ last.req.user_id # last.caller
    /\ HasId(trades, last.created)
    /\ ById(trades, last.created).user_id = last.caller

\* a field is missing when the payload does not carry it
Missing(t) ==
    \/ t.status = "open" /\ t.buy_price = None
    \/ t.status = "closed" /\ t.sell_price = None
    \/ t.risk = None /\ t.risk_dollars = None

\* C7: add_trade fails with a validation error, storing nothing, if
\* status=open and buy_price is missing, if status=closed and sell_price is
\* missing, or if neither risk nor risk_dollars is supplied; otherwise it
\* persists exactly one new record and returns its id.
C7_AsStated ==
    [][AddStep =>
         IF Missing(last'.req) THEN last'.code = 422 /\ trades' = trades
         ELSE last'.code = 200 /\ Added]_vars

\* a field that is 0 counts as missing too
MissingOrZero(t) ==
    \/ t.status = "open" /\ ~Truthy(t.buy_price)
    \/ t.status = "closed" /\ ~Truthy(t.sell_price)
    \/ ~TruthyRat(t.risk) /\ ~TruthyRat(t.risk_dollars)

\* what the handler does: a price or a risk of 0 is refused as if missing
C7_ZeroRefused ==
    [][AddStep =>
         IF MissingOrZero(last'.req) THEN last'.code = 422 /\ trades' = trades
         ELSE last'.code = 200 /\ Added]_vars

\* a risk of 0 percent, supplied, and refused
C7_WitnessZeroRisk ==
    /\ last.op = "add_trade" /\ last.code = 422
    /\ last.req.risk = Some(R(0)) /\ last.req.status = "open" /\ last.req.buy_price = Some(10)

\* the risk fields of the new record doc, derived from the balance B for
\* the payload t: risk_dollars * 100 = risk * B
Derived(t, doc, B) ==
    /\ (t.risk # None /\ t.risk_dollars = None) =>
            /\ doc.risk = t.risk
            /\ doc.risk_dollars # None
            /\ RMul(Val(doc.risk_dollars), R(100)) = RMul(Val(t.risk), R(B))
    /\ (t.risk_dollars # None /\ t.risk = None) =>
            /\ doc.risk_dollars = t.risk_dollars
            /\ doc.risk # None
            /\ RMul(Val(doc.risk), R(B)) = RMul(Val(t.risk_dollars), R(100))

\* C8 as stated: add_trade derives the absent risk field from the resolved
\* account balance B, whatever B is.
C8_AsStated ==
    [][(AddStep /\ last'.code = 200) =>
         Derived(last'.req, trades'[Len(trades')],
                 ResolveAccountBalance(last'.caller, last'.req.account_balance))]_vars

\* C8: when the resolved account balance B is positive, add_trade derives
\* the absent risk field from it: given risk r and no risk_dollars it stores
\* risk_dollars = r/100 * B; given risk_dollars d and no risk it stores
\* risk = d/B * 100.
C8_RiskDerived ==
    [][(AddStep /\ last'.code = 200
            /\ ResolveAccountBalance(last'.caller, last'.req.account_balance) > 0) =>
         Derived(last'.req, trades'[Len(trades')],
                 ResolveAccountBalance(last'.caller, last'.req.account_balance))]_vars

\* r = 2.0 and B = 10000 give 200.0
C8_Witness ==
    /\ last.op = "add_trade" /\ last.code = 200
    /\ last.req.risk = Some(R(2)) /\ last.req.risk_dollars = None
    /\ HasId(trades, last.created)
    /\ ById(trades, last.created).account_balance = Some(10000)
    /\ ById(trades, last.created).risk_dollars = Some(R(200))

\* d = 150 and B = 10000 give 1.5
C8_WitnessDollars ==
    /\ last.op = "add_trade" /\ last.code = 200
    /\ last.req.risk = None /\ last.req.risk_dollars = Some(R(150))
    /\ HasId(trades, last.created)
    /\ ById(trades, last.created).account_balance = Some(10000)
    /\ ById(trades, last.created).risk = Some(<<3, 2>>)

\* the priority of the balances, given(x) saying when the payload carries one
Priority(caller, x, given(_)) ==
    IF given(x) THEN Val(x)
    ELSE IF profiles[caller] # None THEN Val(Val(profiles[caller]).account_balance)
    ELSE DEFAULT_BALANCE

\* C9 as stated: the balance is the account_balance of the payload if given,
\* otherwise the balance of the caller's stored profile, otherwise 10000, and
\* it is stored on the trade.
C9_AsStated ==
    [][(AddStep /\ last'.code = 200) =>
         trades'[Len(trades')].account_balance =
            Some(Priority(last'.caller, last'.req.account_balance, LAMBDA x : x # None))]_vars

\* C9: the balance is the account_balance of the payload if given and not 0,
\* otherwise the balance of the caller's stored profile, otherwise 10000, and
\* it is stored on the trade.
C9_BalanceResolved ==
    [][(AddStep /\ last'.code = 200) =>
         trades'[Len(trades')].account_balance =
            Some(Priority(last'.caller, last'.req.account_balance,
                          LAMBDA x : x # None /\ Val(x) # 0))]_vars

\* no balance in the payload: the balance of the profile is stored
C9_Witness ==
    /\ last.op = "add_trade" /\ last.code = 200
    /\ last.req.account_balance = None
    /\ profiles[last.caller] # None
    /\ HasId(trades, last.created)
    /\ ById(trades, last.created).account_balance = Some(20000)

\* the balance of the payload before the balance of the profile
C9_WitnessPayload ==
    /\ last.op = "add_trade" /\ last.code = 200
    /\ last.req.account_balance = Some(5000)
    /\ profiles[last.caller] # None
    /\ HasId(trades, last.created)
    /\ ById(trades, last.created).account_balance = Some(5000)

\* neither: the default
C9_WitnessDefault ==
    /\ last.op = "add_trade" /\ last.code = 200
    /\ last.req.account_balance = None
    /\ profiles[last.caller] = None
    /\ HasId(trades, last.created)
    /\ ById(trades, last.created).account_balance = Some(DEFAULT_BALANCE)

----------------------------------------------------------------------------
(* Claims on the balance snapshot of a trade.                              *)

\* the risk fields of the trade after an update u of the record before:
\* derived from the balance B when one of the two is absent or 0, and as
\* supplied or stored otherwise
RiskFrom(before, after, u, B) ==
    LET final_risk == Supplied(u.risk, before.risk)
        final_risk_dollars == Supplied(u.risk_dollars, before.risk_dollars)
    IN IF db /\ Truthy(B) /\ Val(B) > 0 /\ TruthyRat(final_risk) /\ ~TruthyRat(final_risk_dollars)
       THEN /\ after.risk = final_risk
            /\ after.risk_dollars # None
            /\ RMul(Val(after.risk_dollars), R(100)) = RMul(Val(final_risk), R(Val(B)))
       ELSE IF db /\ Truthy(B) /\ Val(B) > 0 /\ TruthyRat(final_risk_dollars) /\ ~TruthyRat(final_risk)
       THEN /\ after.risk_dollars = final_risk_dollars
            /\ after.risk # None
            /\ RMul(Val(after.risk), R(Val(B))) = RMul(Val(final_risk_dollars), R(100))
       ELSE after.risk = final_risk /\ after.risk_dollars = final_risk_dollars

\* C10: update_user_profile changes no trade record, and an update_trade
\* that does not supply account_balance leaves the account_balance of the
\* trade as stored and derives the risk from that stored snapshot, never
\* from the current balance of the profile.
C10_SnapshotKept ==
    [][/\ last'.op = "update_user_profile" => trades' = trades
       /\ (last'.op = "update_trade" /\ last'.code = 200 /\ last'.req.account_balance = None) =>
            /\ ById(trades', last'.target).account_balance = ById(trades, last'.target).account_balance
            /\ RiskFrom(ById(trades, last'.target), ById(trades', last'.target), last'.req,
                        ById(trades, last'.target).account_balance)]_vars

\* a trade entered with the default balance, the profile set to another
\* balance since, and 3 percent derived as 300, from 10000
C10_Witness ==
    /\ db
    /\ last.op = "update_trade" /\ last.code = 200
    /\ last.req.account_balance = None /\ last.req.risk = Some(R(3))
    /\ profiles["user123"] # None
    /\ Val(profiles["user123"]).account_balance = Some(20000)
    /\ ById(trades, 1).account_balance = Some(DEFAULT_BALANCE)
    /\ ById(trades, 1).risk_dollars = Some(R(300))

\* the profile set after the trade was entered, the trade as it was
C10_WitnessProfile ==
    /\ db
    /\ last.op = "update_user_profile" /\ last.code = 200
    /\ HasId(trades, 1)
    /\ ById(trades, 1).account_balance = Some(DEFAULT_BALANCE)
    /\ ById(trades, 1).risk_dollars = Some(R(200))
    /\ Val(profiles["user123"]).account_balance = Some(5000)

----------------------------------------------------------------------------
(* Claims on update_trade.                                                 *)

UpdateStep == last'.op = "update_trade" /\ last' # last

\* the update addresses a stored trade of the caller
OwnTarget == HasId(trades, last'.target) /\ ById(trades, last'.target).user_id = last'.caller

\* the record the update u would leave of doc lacks a required field
MergedMissing(doc, u) ==
    LET status == IF u.status # None THEN Val(u.status) ELSE doc.status
    IN \/ status = "open" /\ Supplied(u.buy_price, doc.buy_price) = None
       \/ status = "closed" /\ Supplied(u.sell_price, doc.sell_price) = None
       \/ Supplied(u.risk, doc.risk) = None /\ Supplied(u.risk_dollars, doc.risk_dollars) = None

\* C11: update_trade validates the merged record: it fails with a validation
\* error, changing nothing, whenever the resulting record would have
\* status=open without buy_price, status=closed without sell_price, or
\* neither risk nor risk_dollars, with Firestore and without it.
C11_MergedValidated ==
    [][(UpdateStep /\ OwnTarget /\ MergedMissing(ById(trades, last'.target), last'.req)) =>
         (last'.code = 422 /\ trades' = trades)]_vars

\* what holds: with Firestore the merged record is validated
C11_WithFirestore ==
    [][(db /\ UpdateStep /\ OwnTarget /\ MergedMissing(ById(trades, last'.target), last'.req)) =>
         (last'.code = 422 /\ trades' = trades)]_vars

\* with Firestore, the closing of an open lot that has no sell price, refused
C11_WitnessRefused ==
    /\ db
    /\ last.op = "update_trade" /\ last.code = 422
    /\ last.req.status = Some("closed") /\ last.req.sell_price = None
    /\ HasId(trades, last.target)
    /\ ById(trades, last.target).status = "open"
    /\ ById(trades, last.target).sell_price = None

\* without Firestore, the same closing accepted: a closed trade with no sell
\* price
C11_WitnessAccepted ==
    /\ ~db
    /\ last.op = "update_trade" /\ last.code = 200
    /\ HasId(trades, last.target)
    /\ ById(trades, last.target).status = "closed"
    /\ ById(trades, last.target).sell_price = None

\* the fields of a trade document an UpdateTradeRequest can carry, the two
\* risk fields apart, and those it cannot
EditableFields ==
    {"date", "ticker", "buy_price", "sell_price", "shares", "account_balance", "notes", "status"}
FixedFields == {"id", "user_id", "exit_date", "created_at"}

\* the fields the request u does not carry are in after as in before;
\* derivable(x) says when a stored risk field may be replaced by a derived one
Frame(before, after, u, derivable(_)) ==
    /\ \A f \in EditableFields : u[f] = None => after[f] = before[f]
    /\ \A f \in FixedFields : after[f] = before[f]
    /\ \A f \in {"risk", "risk_dollars"} :
            u[f] = None => \/ after[f] = before[f]
                           \/ derivable(before[f]) /\ TruthyRat(after[f])

UpdateDone == UpdateStep /\ last'.code = 200

\* C12 as stated: a successful update_trade changes, on the target trade,
\* only the fields present in the request, updated_at, and a risk field that
\* was absent and is derived; every other trade record is unchanged.
C12_AsStated ==
    [][UpdateDone =>
         /\ Frame(ById(trades, last'.target), ById(trades', last'.target), last'.req,
                  LAMBDA x : x = None)
         /\ OthersKept(last'.target)]_vars

\* C12: a successful update_trade changes, on the target trade, only the
\* fields present in the request, updated_at, and a risk field that was
\* absent or 0 and is derived; every other trade record is unchanged.
C12_PartialUpdate ==
    [][UpdateDone =>
         /\ Frame(ById(trades, last'.target), ById(trades', last'.target), last'.req,
                  LAMBDA x : ~TruthyRat(x))
         /\ OthersKept(last'.target)]_vars

\* the ticker, shares, date and notes of one of two trades edited: its
\* prices and status as entered
C12_Witness ==
    /\ last.op = "update_trade" /\ last.code = 200
    /\ last.req.ticker = Some("msft") /\ last.req.buy_price = None /\ last.req.status = None
    /\ Len(trades) >= 2
    /\ ById(trades, last.target).ticker = "MSFT"
    /\ ById(trades, last.target).shares = LotShares + 3
    /\ ById(trades, last.target).buy_price = Some(10)
    /\ ById(trades, last.target).status = "open"

----------------------------------------------------------------------------
(* Claims on delete_trade.                                                 *)

DeleteStep == last'.op = "delete_trade" /\ last' # last

\* the outcome of DELETE /trades/{target} for the caller: not found, denied
\* with the trade kept, or that trade removed and every other record kept
DeleteOutcome ==
    IF ~HasId(trades, last'.target) THEN last'.code = 404 /\ trades' = trades
    ELSE IF ById(trades, last'.target).user_id # last'.caller
    THEN last'.code = 403 /\ trades' = trades
    ELSE /\ last'.code = 200
         /\ ~HasId(trades', last'.target)
         /\ Len(trades') = Len(trades) - 1
         /\ \A i \in Idx(trades) :
                trades[i].id # last'.target => \E j \in Idx(trades') : trades'[j] = trades[i]

\* C13: delete_trade fails with not-found if the id does not exist, fails
\* with access-denied, the trade remaining, if its owner is not the caller,
\* and otherwise removes exactly that trade and changes no other record.
C13_AsStated == [][DeleteStep => DeleteOutcome]_vars

\* what holds: the same, with Firestore
C13_WithFirestore == [][(db /\ DeleteStep) => DeleteOutcome]_vars

\* with Firestore, a trade removed and another one left
C13_WitnessRemoved ==
    /\ db
    /\ last.op = "delete_trade" /\ last.code = 200
    /\ ~HasId(trades, last.target)
    /\ trades # <<>>

\* without Firestore, the trade still stored after its deletion was reported
C13_WitnessKept ==
    /\ ~db
    /\ last.op = "delete_trade" /\ last.code = 200
    /\ HasId(trades, last.target)

----------------------------------------------------------------------------
(* Claims on the date windows of get_trades and get_metrics.               *)

\* the date a trade is placed at: the exit date of a closed trade that has
\* one, the entry date of any other
ReferenceDate(doc) ==
    IF doc.status = "closed" /\ doc.exit_date # None THEN Val(doc.exit_date) ELSE doc.date

\* from_date <= d <= to_date, a bound that is not given not counting
Within(d, window) ==
    /\ window[1] # None => Val(window[1]) <= d
    /\ window[2] # None => d <= Val(window[2])

\* the trades of the user the window selects
Selected(user_id, window) ==
    {trades[i] : i \in {j \in Idx(trades) : /\ trades[j].user_id = user_id
                                            /\ Within(ReferenceDate(trades[j]), window)}}

Elements(docs) == {docs[i] : i \in 1..Len(docs)}

Windowed == last.req[1] # None \/ last.req[2] # None

\* C14: get_trades with from_date and/or to_date returns exactly the
\* caller's trades whose reference date d satisfies from_date <= d <= to_date,
\* d being the exit_date of a closed trade that has one and the entry date
\* otherwise.
C14_AsStated ==
    (last.op = "get_trades" /\ last.code = 200 /\ Windowed) =>
        Elements(last.data) = Selected(last.user, last.req)

\* what holds: the same, with Firestore
C14_WithFirestore ==
    (db /\ last.op = "get_trades" /\ last.code = 200 /\ Windowed) =>
        Elements(last.data) = Selected(last.user, last.req)

\* with Firestore, a trade entered on day 1 and closed on day 2 is listed
\* for the window [2, 2]
C14_WitnessIncluded ==
    /\ db
    /\ last.op = "get_trades" /\ last.code = 200 /\ last.req = <<Some(2), Some(2)>>
    /\ \E doc \in Elements(last.data) : doc.date = 1 /\ doc.exit_date = Some(2)

\* and not for the window [1, 1], which holds its entry date only
C14_WitnessExcluded ==
    /\ db
    /\ last.op = "get_trades" /\ last.code = 200 /\ last.req = <<Some(1), Some(1)>>
    /\ \E i \in Idx(trades) : /\ trades[i].user_id = last.user
                              /\ trades[i].date = 1 /\ trades[i].exit_date = Some(2)
                              /\ trades[i] \notin Elements(last.data)

\* without Firestore, a trade listed that the window does not hold
C14_WitnessUnfiltered ==
    /\ ~db
    /\ last.op = "get_trades" /\ last.code = 200 /\ Windowed
    /\ \E doc \in Elements(last.data) : ~Within(ReferenceDate(doc), last.req)

\* the trades of the user that get_trades lists for the window, in the
\* order of the store
SelectedSeq(user_id, window) ==
    SelectSeq(trades, LAMBDA doc : doc.user_id = user_id /\ Within(ReferenceDate(doc), window))

\* C15: get_metrics for a window computes its metrics over exactly the
\* trades the exit-date-first policy selects for that window, the set
\* get_trades returns for the same user and window.
C15_AsStated ==
    (last.op = "get_metrics" /\ last.code = 200) =>
        last.data = Metrics(SelectedSeq(last.user, last.req))

\* a trade entered on day 1 and closed on day 2, the window [2, 2], and no
\* trade counted
C15_WitnessDropped ==
    /\ db
    /\ last.op = "get_metrics" /\ last.code = 200 /\ last.req = <<Some(2), Some(2)>>
    /\ \E doc \in Selected(last.user, last.req) :
            doc.date = 1 /\ doc.status = "closed" /\ doc.exit_date = Some(2)
    /\ last.data.total_trades = 0

\* what holds with Firestore: the trades counted are selected by the window
\* and entered inside it, or, when there is none, entered in the month of
\* the window
C15_EntryDateToo ==
    (db /\ last.op = "get_metrics" /\ last.code = 200 /\ Windowed) =>
        LET inside == SelectSeq(SelectedSeq(last.user, last.req),
                                LAMBDA doc : Within(doc.date, last.req))
            month == MonthOf(Val(IF last.req[1] # None THEN last.req[1] ELSE last.req[2]))
            entered == SelectSeq(OfUser(trades, last.user), LAMBDA doc : MonthOf(doc.date) = month)
        IN last.data = Metrics(IF inside = <<>> THEN entered ELSE inside)

----------------------------------------------------------------------------
(* Claims about the metrics *)

\* get_metrics has answered the user's request for all of their trades
MetricsRead == last.op = "get_metrics" /\ last.code = 200 /\ last.req = <<None, None>>

\* the positions in the store of the closed trades of the user that have
\* both prices, a price of 0 included
CompleteTrades(user_id) ==
    {i \in 1..Len(trades) : /\ trades[i].user_id = user_id
                            /\ trades[i].status = "closed"
                            /\ trades[i].buy_price # None
                            /\ trades[i].sell_price # None}

\* those of them with both prices other than 0
PricedTrades(user_id) ==
    {i \in CompleteTrades(user_id) : Val(trades[i].buy_price) # 0 /\ Val(trades[i].sell_price) # 0}

ProfitOf(i) == (Val(trades[i].sell_price) - Val(trades[i].buy_price)) * trades[i].shares

RECURSIVE TotalProfit(_)
TotalProfit(S) ==
    IF S = {} THEN 0 ELSE LET i == CHOOSE i \in S : TRUE IN ProfitOf(i) + TotalProfit(S \ {i})

AllZero(m) ==
    /\ m.net_pnl = 0 /\ m.total_trades = 0 /\ m.winning_trades = 0 /\ m.losing_trades = 0
    /\ m.trade_expectancy = R(0) /\ m.profit_factor = R(0) /\ m.win_percentage = R(0)
    /\ m.avg_win = R(0) /\ m.avg_loss = R(0)

CountsExactly(S) ==
    /\ last.data.total_trades = Cardinality(S)
    /\ last.data.net_pnl = TotalProfit(S)
    /\ S = {} => AllZero(last.data)

\* C16: get_metrics counts exactly the closed trades of its input that have
\* buy_price, sell_price and shares, a price of 0 included: total_trades is
\* their number, net_pnl the sum of (sell_price - buy_price) * shares over
\* them, and every metric is 0 when there is none.
C16_AsStated == MetricsRead => CountsExactly(CompleteTrades(last.user))

\* what holds: the closed trades with both prices other than 0 are counted
C16_PricedCounted == MetricsRead => CountsExactly(PricedTrades(last.user))

\* a closed trade bought at 0 is stored and is not counted
C16_WitnessZeroPrice ==
    /\ MetricsRead
    /\ \E i \in CompleteTrades(last.user) : trades[i].buy_price = Some(0)
    /\ last.data.total_trades < Cardinality(CompleteTrades(last.user))

\* the trades get_metrics counts for the user that gained, and that lost
Winners(user_id) == {i \in PricedTrades(user_id) : ProfitOf(i) > 0}

Losers(user_id) == {i \in PricedTrades(user_id) : ProfitOf(i) < 0}

GrossProfit(user_id) == TotalProfit(Winners(user_id))

GrossLoss(user_id) == Abs(TotalProfit(Losers(user_id)))

\* the rational q is n / d
IsRatio(q, n, d) == q[2] > 0 /\ q[1] * d = n * q[2]

Max(a, b) == IF a > b THEN a ELSE b

\* C17 as the specification states it: profit_factor is gross_profit over
\* the larger of gross_loss and 1.
C17_AsStated ==
    MetricsRead =>
        IsRatio(last.data.profit_factor, GrossProfit(last.user),
                Max(GrossLoss(last.user), Dollar))

\* C17: get_metrics returns profit_factor = gross_profit / gross_loss when a
\* counted trade lost, whatever the size of the loss, and gross_profit / 1
\* when none did, gross_profit being the sum of the positive P&L and
\* gross_loss the absolute sum of the negative P&L of the trades counted;
\* with no losing trade the result is finite and equals gross_profit.
C17_ProfitFactor ==
    MetricsRead =>
        IsRatio(last.data.profit_factor, GrossProfit(last.user),
                IF Losers(last.user) # {} THEN GrossLoss(last.user) ELSE Dollar)

\* a gain and a loss of less than a dollar are counted
C17_Witness ==
    /\ MetricsRead
    /\ GrossProfit(last.user) > 0
    /\ Losers(last.user) # {} /\ GrossLoss(last.user) < Dollar
    /\ last.data.profit_factor = Norm(GrossProfit(last.user), GrossLoss(last.user))

\* gains only: the profit factor is the gross profit, in dollars
C17_WitnessNoLoss ==
    /\ MetricsRead
    /\ GrossProfit(last.user) > 0 /\ Losers(last.user) = {}
    /\ last.data.profit_factor = Norm(GrossProfit(last.user), Dollar)

\* the mean of n over a count, 0 when there is none
MeanIs(q, n, count) == IF count > 0 THEN IsRatio(q, n, count) ELSE q = R(0)

\* C18: over the trades it counts, get_metrics returns trade_expectancy =
\* (win_count / total * avg_win) - (loss_count / total * avg_loss), where
\* avg_win is the mean of the positive P&L and avg_loss the mean absolute
\* value of the negative P&L (each 0 if there is none), and a trade with a
\* P&L of 0 is counted in total only; trade_expectancy * total_trades is
\* then net_pnl.
C18_Expectancy ==
    (MetricsRead /\ last.data.total_trades > 0) =>
        LET m == last.data
            W == Cardinality(Winners(last.user))
            L == Cardinality(Losers(last.user))
            T == Cardinality(PricedTrades(last.user))
        IN /\ m.winning_trades = W /\ m.losing_trades = L /\ m.total_trades = T
           /\ MeanIs(m.avg_win, GrossProfit(last.user), W)
           /\ MeanIs(m.avg_loss, GrossLoss(last.user), L)
           /\ m.trade_expectancy = RSub(RMul(Norm(W, T), m.avg_win), RMul(Norm(L, T), m.avg_loss))
           /\ RMul(m.trade_expectancy, R(T)) = R(m.net_pnl)

\* a gain, a loss and a trade that breaks even are counted
C18_Witness ==
    /\ MetricsRead
    /\ Winners(last.user) # {} /\ Losers(last.user) # {}
    /\ \E i \in PricedTrades(last.user) : ProfitOf(i) = 0
    /\ last.data.total_trades > last.data.winning_trades + last.data.losing_trades
    /\ last.data.trade_expectancy[2] > 1

----------------------------------------------------------------------------
(* Claims about the monthly returns *)

\* no two stored records have the same user and month
OnePerMonth(returns) ==
    \A i, j \in 1..Len(returns) :
        (returns[i].user_id = returns[j].user_id /\ returns[i].month = returns[j].month) => i = j

\* a POST /monthly-returns has succeeded for a month the caller had a
\* record of
PostedAgain ==
    /\ last'.op = "create_or_update_monthly_return" /\ last'.code = 200
    /\ \E i \in 1..Len(monthly_returns) :
            monthly_returns[i].user_id = last'.caller /\ monthly_returns[i].month = last'.req.month

\* the record of the caller for the month is still there with its id and
\* created_at, and the other records are as they were
UpdatedInPlace ==
    /\ Len(monthly_returns') = Len(monthly_returns)
    /\ nextId' = nextId
    /\ \A i \in 1..Len(monthly_returns) :
            IF monthly_returns[i].user_id = last'.caller /\ monthly_returns[i].month = last'.req.month
            THEN /\ monthly_returns'[i].id = monthly_returns[i].id
                 /\ monthly_returns'[i].created_at = monthly_returns[i].created_at
                 /\ monthly_returns'[i].user_id = monthly_returns[i].user_id
                 /\ monthly_returns'[i].month = monthly_returns[i].month
                 /\ last'.target = monthly_returns[i].id
            ELSE monthly_returns'[i] = monthly_returns[i]

\* C19: after every request the store holds at most one monthly_returns
\* record per user and month; a POST /monthly-returns of a month the caller
\* has a record of updates that record in place, with the same id and
\* created_at, and creates no record.
C19_Upsert == [][OnePerMonth(monthly_returns') /\ (PostedAgain => UpdatedInPlace)]_vars

\* a record created on day 1 has been posted again on a later day with
\* other capitals
C19_Witness ==
    /\ last.op = "create_or_update_monthly_return" /\ last.code = 200 /\ last.target # 0
    /\ \E i \in 1..Len(monthly_returns) :
            /\ monthly_returns[i].id = last.target
            /\ monthly_returns[i].created_at = 1 /\ monthly_returns[i].updated_at = today
            /\ today > 1
            /\ monthly_returns[i].start_cap = 200
    /\ \E i \in 1..Len(monthly_returns) : monthly_returns[i].id # last.target

----------------------------------------------------------------------------
(* Claims about the stored trades *)

WellFormed(doc) ==
    /\ doc.status = "open" => doc.sell_price = None
    /\ doc.status = "closed" => (doc.buy_price # None /\ doc.sell_price # None)

\* C20: in every state that add_trade, exit_trade and update_trade reach,
\* every stored trade with status open has no sell_price and every stored
\* trade with status closed has both buy_price and sell_price.
C20_AsStated == \A i \in 1..Len(trades) : WellFormed(trades[i])

\* what the validations establish when a trade is written with Firestore:
\* an open trade has a buy_price other than 0 and a closed trade a
\* sell_price other than 0
C20_RequiredPrice ==
    db => \A i \in 1..Len(trades) :
            /\ trades[i].status = "open" => Truthy(trades[i].buy_price)
            /\ trades[i].status = "closed" => Truthy(trades[i].sell_price)

\* add_trade has stored a closed trade without buy_price
C20_WitnessNoBuyPrice ==
    /\ last.op = "add_trade" /\ last.code = 200
    /\ \E i \in 1..Len(trades) :
            /\ trades[i].id = last.created
            /\ trades[i].status = "closed" /\ trades[i].buy_price = None

\* update_trade has re-opened a closed trade, whose sell_price stays
C20_WitnessReopened ==
    /\ last.op = "update_trade" /\ last.code = 200
    /\ \E i \in 1..Len(trades) :
            /\ trades[i].id = last.target
            /\ trades[i].status = "open" /\ trades[i].sell_price # None

----------------------------------------------------------------------------
(* Claims about the tickers *)

\* C21: every trade record written by add_trade, update_trade or exit_trade
\* has its ticker in upper case, so that an exit request finds the open
\* trade whatever the letter case it was entered with.
C21_AsStated == \A i \in Idx(trades) : trades[i].ticker = Upper(trades[i].ticker)

\* what holds: update_trade writes the ticker it is given in upper case
C21_UpdateUppercases ==
    [][(UpdateDone /\ last'.req.ticker # None) =>
            ById(trades', last'.target).ticker = Upper(Val(last'.req.ticker))]_vars

\* an exit of AAPL is answered 404 while the user has an open lot entered
\* as aapl
C21_WitnessNotFound ==
    /\ last.op = "exit_trade" /\ last.code = 404 /\ last.req.ticker = "AAPL"
    /\ \E i \in Idx(trades) :
            /\ trades[i].user_id = last.user /\ trades[i].status = "open"
            /\ trades[i].ticker = "aapl"

----------------------------------------------------------------------------
(* Claims about the settings *)

\* a PUT /profile/{user_id} has succeeded for a user with a stored profile
ProfileSaved ==
    /\ last'.op = "update_user_profile" /\ last'.code = 200
    /\ profiles[last'.user] # None /\ profiles'[last'.user] # profiles[last'.user]

\* a POST /fees-config has succeeded for a user with a stored configuration
FeesSaved ==
    /\ last'.op = "save_fees_config" /\ last'.code = 200
    /\ fees_configs[last'.user] # None /\ fees_configs'[last'.user] # fees_configs[last'.user]

\* C22: a PUT /profile/{user_id} or POST /fees-config that leaves a field
\* out (the currency, the risk_tolerance, a fee parameter) leaves the stored
\* value of that field as it was, and does not reset it to its default.
C22_AsStated ==
    [][/\ ProfileSaved =>
            LET before == Val(profiles[last'.user])
                after == Val(profiles'[last'.user])
            IN /\ last'.req.currency = None => after.currency = before.currency
               /\ last'.req.risk_tolerance = None => after.risk_tolerance = before.risk_tolerance
       /\ FeesSaved =>
            \A k \in FeeFields \ DOMAIN last'.req :
                Val(fees_configs'[last'.user]).fees[k] = Val(fees_configs[last'.user]).fees[k]]_vars

\* what holds: a field left out is written with its default
C22_DefaultsWritten ==
    [][/\ ProfileSaved =>
            LET after == Val(profiles'[last'.user])
            IN /\ last'.req.currency = None => after.currency = "USD"
               /\ last'.req.risk_tolerance = None => after.risk_tolerance = DEFAULT_RISK_TOLERANCE
       /\ FeesSaved =>
            \A k \in FeeFields \ DOMAIN last'.req :
                Val(fees_configs'[last'.user]).fees[k] = FeeDefault(k)]_vars

\* the balance alone has been saved over a profile in EUR: the currency is
\* now USD
C22_WitnessProfile ==
    /\ last.op = "update_user_profile" /\ last.code = 200 /\ last.req.currency = None
    /\ profiles[last.user] # None
    /\ Val(profiles[last.user]).currency = "USD"
    /\ Val(profiles[last.user]).account_balance = Some(6000)

\* the brokerage alone has been saved: the platform fee is 0
C22_WitnessFees ==
    /\ last.op = "save_fees_config" /\ last.code = 200
    /\ DOMAIN last.req = {"brokerage_percentage"} /\ last.req["brokerage_percentage"] = R(2)
    /\ fees_configs[last.user] # None
    /\ Val(fees_configs[last.user]).fees["platform_fee_usd"] = R(0)

----------------------------------------------------------------------------
(* Claims about the campaign scripts *)

CampaignOps == {"run_reminder_campaign", "run_weekly_summary_campaign", "run_update_campaign"}

\* a script has run; last'.req is its command line
CampaignRun == last'.op \in CampaignOps

\* C23: in each campaign script dry-run is in effect unless --live is given
\* without --dry-run, and a run in which dry-run is in effect hands no email
\* to the email service and writes no marker to the store, with
\* --test-email as without it.
C23_DryRunSendsNothing ==
    [][CampaignRun =>
         (~(last'.req.live /\ ~last'.req.dry_run) => (outbox' = outbox /\ markers' = markers))]_vars

\* the weekly summary script has run with --live --dry-run --test-email and
\* nothing is in the outbox or in the store
C23_Witness ==
    /\ last.op = "run_weekly_summary_campaign"
    /\ last.req.live /\ last.req.dry_run /\ last.req.test_email # None
    /\ outbox = <<>> /\ markers = {}

\* a run with --live alone has handed emails over and marked the users
C23_WitnessLive ==
    /\ last.op \in CampaignOps /\ last.req.live /\ ~last.req.dry_run /\ last.req.test_email = None
    /\ last.data > 0 /\ Len(outbox) >= last.data
    /\ markers # {}

\* the reminders handed over for an address, as positions in the outbox
Reminders(to) == {i \in 1..Len(outbox) : outbox[i].kind = "reminder" /\ outbox[i].to = to}

\* C26: run_reminder_campaign sends no reminder to a user whose stored
\* reminder_email_sent_at is less than 7 days old, so that live runs less
\* than 7 days apart send an inactive user, one who never signed in
\* included, at most one reminder.
C26_AsStated ==
    \A k \in 1..Len(AuthUsers) :
        AuthUsers[k].email # None =>
            \A i, j \in Reminders(Val(AuthUsers[k].email)) :
                i < j => outbox[j].at - outbox[i].at >= REMINDER_INTERVAL

\* what holds: a user who has signed in gets no reminder while the stored
\* reminder_email_sent_at is less than 7 days old
C26_SignedInSkipped ==
    [][(last'.op = "run_reminder_campaign" /\ last'.req.test_email = None) =>
         \A k \in 1..Len(AuthUsers) :
            (/\ AuthUsers[k].email # None /\ AuthUsers[k].last_sign_in # None
             /\ MarkerOf("reminder_email_sent_at", AuthUsers[k].uid) # None
             /\ today - Val(MarkerOf("reminder_email_sent_at", AuthUsers[k].uid)) < REMINDER_INTERVAL)
            => \A i \in 1..Len(outbox') : i > Len(outbox) => outbox'[i].to # Val(AuthUsers[k].email)]_vars

\* the user who never signed in has been sent two reminders on one day,
\* the first of them marked in the store
C26_WitnessTwice ==
    /\ last.op = "run_reminder_campaign"
    /\ MarkerOf("reminder_email_sent_at", "u2") = Some(today)
    /\ \E i, j \in Reminders("b@x") : i < j /\ outbox[i].at = today /\ outbox[j].at = today

----------------------------------------------------------------------------
(* Claims on the writes of exit_trade.                                     *)

RECURSIVE SharesOf(_)
\* the shares of the trades at the given positions, together
SharesOf(S) ==
    IF S = {} THEN 0 ELSE LET i == CHOOSE i \in S : TRUE IN trades[i].shares + SharesOf(S \ {i})

Closed == {i \in Idx(trades) : trades[i].status = "closed"}

Open == {i \in Idx(trades) : trades[i].status = "open"}

\* the requests answered in this step
Answered == {f \in inflight : f \notin inflight' /\ last' # last /\ last'.op = "exit_trade"
                               /\ last'.req = f.r /\ last'.target = f.trade_data.id}

\* C24: exits of one open lot are not serialized: a request writes what it
\* computed from the shares it read, whatever the other requests have
\* written since, so that the shares recorded as exited can exceed the
\* shares of the lot.
C24_NotSerialized ==
    [][\A f \in Answered :
          (last'.code = 200 /\ last'.created # 0) =>
              /\ ById(trades', f.trade_data.id).shares
                    = RemainingShares(f.trade_data.shares, f.r.shares_to_exit)
              /\ ById(trades', last'.created).shares = f.r.shares_to_exit]_vars

\* the lot of LotShares shares has been exited by two requests, none of
\* them for a negative number of shares, and the closed records hold more
\* shares than the lot had
C24_Witness ==
    /\ db /\ inflight = {} /\ last.op = "exit_trade" /\ last.code = 200
    /\ \A i \in Idx(trades) : trades[i].shares > 0
    /\ SharesOf(Closed) > LotShares

\* the requests whose closed leg is added in this step: the first of the
\* two writes of a partial exit
LegAdded == {f \in inflight : f.leg = 0 /\ \E g \in inflight' : g.leg # 0 /\ g = [f EXCEPT !.leg = g.leg]}

\* the store after the first write: the trades it had, unchanged, the one
\* the request read among them, and then the closed leg with the shares of
\* the request
LegOnly(f) ==
    /\ Len(trades') = Len(trades) + 1
    /\ \A i \in Idx(trades) : trades'[i] = trades[i]
    /\ trades'[Len(trades')].status = "closed"
    /\ trades'[Len(trades')].shares = f.r.shares_to_exit
    /\ trades'[Len(trades')].user_id = f.trade_data.user_id

\* C25: in a partial exit the closed leg is written before the shares of
\* the original are decremented, as two writes; after the first the store
\* holds the closed leg with shares s and the original as it was, each
\* record valid, so that the shares recorded are never fewer than before.
C25_AsStated ==
    [][\A f \in LegAdded :
          /\ LegOnly(f)
          /\ trades'[Len(trades')].shares > 0
          /\ SharesOf(Idx(trades))' >= SharesOf(Idx(trades))]_vars

\* what holds: the closed leg is written first and alone
C25_LegFirst == [][\A f \in LegAdded : LegOnly(f)]_vars

\* the two writes are separate: a request has added its leg and stopped,
\* and the trade it read is open with the shares it had
C25_WitnessStopped ==
    /\ db /\ inflight = {} /\ Len(trades) = 2
    /\ trades[1].status = "open" /\ trades[1].shares = LotShares
    /\ trades[2].status = "closed" /\ trades[2].shares = LotShares \div 2

\* the leg of an exit of -1 shares, the request stopped after it
C25_WitnessNegative ==
    /\ db /\ inflight = {} /\ Len(trades) = 2
    /\ trades[1].status = "open" /\ trades[1].shares = LotShares
    /\ trades[2].status = "closed" /\ trades[2].shares = -1

----------------------------------------------------------------------------
(* Claims on the shares of a lot *)

\* the records of the lot of MSFT: the trade entered and the closed legs
\* of its partial exits
OfLot == {i \in Idx(trades) : trades[i].ticker = "MSFT"}

\* C27 as stated: after any sequence of successful exits of one lot, one
\* after the other, the shares of its open record and of its closed
\* records are together the shares entered.
C27_AsStated == OfLot # {} => SharesOf(OfLot) = LotShares

\* C27: the shares of the open record and of the closed records of a lot
\* are together the shares entered, until the exit that closes the lot;
\* that exit records the shares it was asked for, which are the remaining
\* shares less a remainder under the tolerance.
C27_Conserved ==
    OfLot # {} =>
        /\ OfLot \cap Open # {} => SharesOf(OfLot) = LotShares
        /\ OfLot \cap Open = {} => (LotShares - SharesOf(OfLot)) \in 0..(EPS - 1)
        /\ ~db => SharesOf(OfLot) = LotShares

\* the lot is closed after a partial exit and a full exit
C27_Witness ==
    /\ last.op = "exit_trade" /\ last.code = 200
    /\ Cardinality(OfLot) = 2 /\ OfLot \cap Open = {}
    /\ SharesOf(OfLot) = LotShares

\* the exit that closed the lot left a remainder under the tolerance
C27_WitnessRemainder ==
    /\ last.op = "exit_trade" /\ last.code = 200
    /\ OfLot \cap Open = {} /\ OfLot # {}
    /\ SharesOf(OfLot) = LotShares - 1

\* C28: a successful exit_trade has shares_to_exit > 0: it leaves the open
\* lot with fewer shares than before, it creates no closed record with zero
\* or negative shares, and after it every open trade has shares > 0.
C28_AsStated ==
    [][(ExitStep /\ last'.code = 200) =>
          /\ last'.req.shares_to_exit > 0
          /\ ById(trades', last'.target).status = "open" =>
                ById(trades', last'.target).shares < ById(trades, last'.target).shares
          /\ last'.created # 0 => ById(trades', last'.created).shares > 0
          /\ \A i \in Idx(trades') : trades'[i].status = "open" => trades'[i].shares > 0]_vars

\* what the check of the shares establishes: a successful exit asks for no
\* more than the shares of the trade, and an open trade keeps shares > 0
C28_NotExceeding ==
    [][(ExitStep /\ last'.code = 200) =>
          /\ last'.req.shares_to_exit <= ById(trades, last'.target).shares
          /\ \A i \in Idx(trades') : trades'[i].status = "open" => trades'[i].shares > 0]_vars

\* an exit of 0 shares has succeeded: a closed leg of 0 shares beside the
\* lot, which has the shares it had
C28_WitnessZero ==
    /\ last.op = "exit_trade" /\ last.code = 200 /\ last.req.shares_to_exit = 0
    /\ last.created # 0 /\ ById(trades, last.created).shares = 0
    /\ ById(trades, last.target).shares = LotShares

\* an exit of -1 shares has succeeded: the lot has one share more
C28_WitnessGrown ==
    /\ last.op = "exit_trade" /\ last.code = 200 /\ last.req.shares_to_exit = -1
    /\ ById(trades, last.target).status = "open"
    /\ ById(trades, last.target).shares = LotShares + 1

----------------------------------------------------------------------------
(* Claims on the owners of the trades *)

\* the request answered in this step
Handled == last' # last \/ trades' # trades

\* C29: an operation of a caller, add, exit, update, delete or list,
\* modifies, deletes and returns no trade with another user_id; the user_id
\* of a stored trade never changes, and a trade it creates, the closed leg
\* of a partial exit included, has the user_id of the caller.
C29_Isolation ==
    [][Handled =>
          /\ \A i \in Idx(trades) :
                trades[i].user_id # last'.caller => \E j \in Idx(trades') : trades'[j] = trades[i]
          /\ \A i \in Idx(trades), j \in Idx(trades') :
                trades'[j].id = trades[i].id => trades'[j].user_id = trades[i].user_id
          /\ \A j \in Idx(trades') :
                ~HasId(trades, trades'[j].id) => trades'[j].user_id = last'.caller
          /\ last'.op = "get_trades" =>
                \A k \in 1..Len(last'.data) : last'.data[k].user_id = last'.caller
          /\ (last'.op = "exit_trade" /\ last'.created # 0) =>
                ById(trades', last'.created).user_id = ById(trades', last'.target).user_id]_vars

\* u2 has been refused the exit, the edit or the deletion of a trade of
\* user123, or the list of the trades of user123, while both own trades
BothOwn == \A u \in Users : \E i \in Idx(trades) : trades[i].user_id = u

C29_Witness ==
    /\ db /\ BothOwn /\ last.caller = "u2" /\ last.op = "update_trade" /\ last.code = 403
    /\ ById(trades, last.target).user_id = "user123"

\* u2 has listed their trades, and user123 has others
C29_WitnessListed ==
    /\ BothOwn /\ last.caller = "u2" /\ last.op = "get_trades" /\ last.code = 200
    /\ Len(last.data) > 0 /\ Len(last.data) < Len(trades)

\* u2 has exited a part of their lot while user123 holds one
C29_WitnessLeg ==
    /\ BothOwn /\ last.caller = "u2" /\ last.op = "exit_trade" /\ last.code = 200
    /\ last.created # 0 /\ ById(trades, last.created).user_id = "u2"

\* u2 has deleted their trade, and the trade of user123 is stored
C29_WitnessDeleted ==
    /\ db /\ last.caller = "u2" /\ last.op = "delete_trade" /\ last.code = 200
    /\ ~HasId(trades, last.target)
    /\ \E i \in Idx(trades) : trades[i].user_id = "user123"

----------------------------------------------------------------------------
(* Claims on the risk of the stored trades *)

\* risk_dollars = risk / 100 * B for the account_balance B of the trade
RiskConsistent(doc) ==
    (doc.account_balance # None /\ Val(doc.account_balance) > 0) =>
        /\ doc.risk # None /\ doc.risk_dollars # None
        /\ Val(doc.risk_dollars) = RMul(RDiv(Val(doc.risk), R(100)), R(Val(doc.account_balance)))

\* C30: after any successful add_trade or update_trade a stored trade with
\* account_balance B > 0 has risk_dollars = risk / 100 * B; an update_trade
\* that changes risk, or account_balance, on a trade with both risk fields
\* derives the other field again from the final balance.
C30_AsStated == \A i \in Idx(trades) : RiskConsistent(trades[i])

\* what holds with Firestore: a successful update_trade that leaves one of
\* risk and risk_dollars absent or 0, with a final balance above 0, derives
\* it from the other, and leaves a pair it finds complete as it is
C30_MissingDerived ==
    [][(db /\ last' # last /\ last'.op = "update_trade" /\ last'.code = 200) =>
          LET old == ById(trades, last'.target)
              new == ById(trades', last'.target)
              final_risk == Supplied(last'.req.risk, old.risk)
              final_risk_dollars == Supplied(last'.req.risk_dollars, old.risk_dollars)
          IN /\ (TruthyRat(final_risk) /\ TruthyRat(final_risk_dollars)) =>
                    (new.risk = final_risk /\ new.risk_dollars = final_risk_dollars)
             /\ (TruthyRat(final_risk) # TruthyRat(final_risk_dollars)
                    /\ new.account_balance # None /\ Val(new.account_balance) > 0) =>
                    RiskConsistent(new)]_vars

\* the risk of a trade entered with 2 percent of 10000 set to 3 percent:
\* risk_dollars is 200 as before
C30_WitnessStale ==
    /\ db /\ last.op = "update_trade" /\ last.code = 200
    /\ last.req.risk = Some(R(3)) /\ last.req.risk_dollars = None
    /\ ById(trades, last.target).account_balance = Some(DEFAULT_BALANCE)
    /\ ById(trades, last.target).risk = Some(R(3))
    /\ ById(trades, last.target).risk_dollars = Some(R(200))

\* the balance of the trade set to 8000 with 3 percent and the dollars
\* cleared: risk_dollars derived as 240
C30_WitnessDerived ==
    /\ db /\ last.op = "update_trade" /\ last.code = 200
    /\ last.req.account_balance = Some(8000)
    /\ ById(trades, last.target).risk = Some(R(3))
    /\ ById(trades, last.target).risk_dollars = Some(R(240))

============================================================================
